---- MODULE Spec2Model ----
(***************************************************************************)
(* SmoothRPC: version-scoped remote procedure calls.                       *)
(*                                                                         *)
(* The model follows src/smooth_rpc/smoothrpc.py and                       *)
(* src/smooth_rpc/network.py: the endpoint table of SmoothRPCHost, the     *)
(* discovery pass _iterate_functions, dispatch (_call_command), the        *)
(* per-connection serve loop (accept_connection / _handle_one_command)     *)
(* and the client stubs installed by instrument_client_commands.           *)
(*                                                                         *)
(* Python objects are records [cls, n, s, a]: the class name, an integer   *)
(* content, a string content (the message of an exception) and a second    *)
(* string argument.  A frame payload is a record that says what            *)
(* pickle.loads does with it.                                              *)
(***************************************************************************)
EXTENDS Integers, Sequences, FiniteSets, TLC

VARIABLES
    commands,   \* SmoothRPCHost.commands: exposed name -> list of (range, bound func)
    regs,       \* number of register_commands calls made so far
    regResult,  \* how the last register_commands call ended
    active,     \* the connections that exist in this run
    c2h,        \* per connection: frames written by the client side, unread by the host
    h2c,        \* per connection: frames written by the host side, unread by the client
    host,       \* per connection: the serve loop (accept_connection) and its current call
    client,     \* per connection: the instrumented client object and its call in progress
    obs,        \* per connection: history of the exchange in progress (not program state)
    rangeCheck, \* the last evaluation of `version in VersionRange(min, max)`
    wire,       \* one byte stream, its send_message end and its recv_message end
    tail,       \* per connection: the bytes a peer left after its last whole frame
                \* when it closed the stream
    legacy,     \* the host of the SmoothRPC package: host_forever, its flag, its network
    conc        \* the tasks that call stubs of one client object at the same time, and
                \* the StreamReader of their connection

vars ==
    <<commands, regs, regResult, active, c2h, h2c, host, client, obs, rangeCheck, wire,
      tail, legacy, conc>>

----------------------------------------------------------------------------
(* Bounds of the model *)

\* register_commands calls per run
MaxRegs == 2
\* requests a peer issues on one connection
MaxCalls == 2
\* send_message calls on the byte stream
MaxFrames == 3
\* largest version and range end of the range checks
MaxVersion == 6

Conns == {"c1", "c2"}

----------------------------------------------------------------------------
(* Python values *)

IntV(k) == [cls |-> "int", n |-> k, s |-> "", a |-> ""]
StrV(t) == [cls |-> "str", n |-> 0, s |-> t, a |-> ""]
NoneV == [cls |-> "NoneType", n |-> 0, s |-> "", a |-> ""]
ObjV(c) == [cls |-> c, n |-> 0, s |-> "", a |-> ""]
BytesV(k) == [cls |-> "bytes", n |-> k, s |-> "", a |-> ""]
ExcV(c, msg) == [cls |-> c, n |-> 0, s |-> msg, a |-> ""]
ExcV2(c, msg, k, arg) == [cls |-> c, n |-> k, s |-> msg, a |-> arg]

\* The subclasses of Exception that occur: builtins, exceptions.py, and the
\* exception classes of the handlers' own code.
ExceptionClasses ==
    { "TypeError", "RuntimeError", "AssertionError", "EOFError",
      "RpcApiVersionMismatchError", "RpcNoSuchApiError", "RpcInvalidVersionError",
      "RpcProtocolError", "RpcSerializationError", "RpcInternalError",
      "RpcDecoratorError", "RpcMaxSizeExceededError",
      "LocalError", "LockError", "CtorError" }

\* isinstance(out, Exception)
IsException(v) == v.cls \in ExceptionClasses

\* str(i) for a natural number i
Digits == <<"0", "1", "2", "3", "4", "5", "6", "7", "8", "9">>

RECURSIVE StrOf(_)
StrOf(i) == IF i < 10 THEN Digits[i + 1] ELSE StrOf(i \div 10) \o Digits[(i % 10) + 1]

----------------------------------------------------------------------------
(* VersionRange *)

VersionRange(mn, mx) == [min_version |-> mn, max_version |-> mx]

\* VersionRange.__contains__: raises RpcInternalError for a version that is not
\* an int, otherwise tells whether min_version <= version <= max_version with
\* an absent (None) end unbounded.
ContainsRaises(version, range) == version.cls # "int"

\* A range that is open at its upper end.
Contains_openmax(version, range) ==
    /\ (range.min_version.cls = "NoneType" \/ range.min_version.n <= version.n)
    /\ (range.max_version.cls = "NoneType" \/ version.n < range.max_version.n)

Contains(version, range) ==
    /\ (range.min_version.cls = "NoneType" \/ range.min_version.n <= version.n)
    /\ (range.max_version.cls = "NoneType" \/ version.n <= range.max_version.n)

----------------------------------------------------------------------------
(* Handler types.  A class is its __dict__ in declaration order; a method is
   what the api decorator left on it and what its body does. *)

\* A method carrying the marking that api(func_name, min_version, max_version) sets.
Api(name, api_name, mn, mx, params, body) ==
    [name |-> name, marked |-> TRUE, is_async |-> TRUE, spec_ok |-> TRUE,
     api_name |-> api_name, range |-> VersionRange(mn, mx),
     params |-> params, body |-> body]

\* A method without the marking.
Plain(name, params, body) ==
    [name |-> name, marked |-> FALSE, is_async |-> TRUE, spec_ok |-> TRUE,
     api_name |-> NoneV, range |-> VersionRange(NoneV, NoneV),
     params |-> params, body |-> body]

\* MyCommands of the tests.
MyCommands ==
    << Api("inc_one", NoneV, IntV(3), NoneV, <<"i">>, "inc_one"),
       Api("cmd2", NoneV, IntV(3), NoneV, <<"_i">>, "cmd2"),
       Api("cmd2_old", StrV("cmd2"), NoneV, IntV(2), <<"i">>, "cmd2_old"),
       Plain("cmd3", <<>>, "cmd3"),
       Api("cmd4", NoneV, NoneV, NoneV, <<>>, "cmd4"),
       Api("unserializable", NoneV, NoneV, NoneV, <<>>, "unserializable") >>

\* A class without marked methods.
NoCommands == << >>

\* The api decorator on a function that is not async.
MyCommandsSync ==
    << [Api("cmd1", NoneV, NoneV, NoneV, <<>>, "none") EXCEPT !.is_async = FALSE] >>

\* A marking that is not an ApiFunctionSpec.
MyTestCommands ==
    << [Api("cmd1", NoneV, NoneV, NoneV, <<>>, "none") EXCEPT !.spec_ok = FALSE] >>

\* A base type and a subtype that overrides its methods: m with another
\* marking, n without a marking.
BaseCommands ==
    << Api("m", NoneV, NoneV, IntV(2), <<>>, "base_m"),
       Api("n", NoneV, NoneV, NoneV, <<>>, "base_n") >>

DerivedCommands ==
    << Api("m", NoneV, IntV(3), NoneV, <<>>, "derived_m"),
       Plain("n", <<>>, "derived_n") >>

\* A valid marked method declared before an invalid one.
MixedCommands ==
    << Api("first", NoneV, NoneV, NoneV, <<>>, "none"),
       [Api("bad", NoneV, NoneV, NoneV, <<>>, "none") EXCEPT !.is_async = FALSE],
       Api("late", NoneV, NoneV, NoneV, <<>>, "none") >>

\* Handlers whose results exercise the outcome paths of the host.
EdgeCommands ==
    << Api("raise_app", NoneV, NoneV, NoneV, <<>>, "raise_app"),
       Api("raise_local", NoneV, NoneV, NoneV, <<>>, "raise_local"),
       Api("raise_lock", NoneV, NoneV, NoneV, <<>>, "raise_lock"),
       Api("raise_ctor", NoneV, NoneV, NoneV, <<>>, "raise_ctor"),
       Api("ret_exc", NoneV, NoneV, NoneV, <<>>, "ret_exc"),
       Api("ret_lock", NoneV, NoneV, NoneV, <<>>, "ret_lock"),
       Api("ret_badreduce", NoneV, NoneV, NoneV, <<>>, "ret_badreduce"),
       Api("ret_huge", NoneV, NoneV, NoneV, <<>>, "ret_huge"),
       Api("hang", NoneV, NoneV, NoneV, <<>>, "hang"),
       Api("spin", NoneV, NoneV, NoneV, <<>>, "spin") >>

\* A base type with a marked method that is not async, and a subtype that
\* overrides it with an unmarked method and adds a marked method of its own.
SyncBaseCommands ==
    << [Api("old", NoneV, NoneV, NoneV, <<>>, "none") EXCEPT !.is_async = FALSE] >>

DerivedSyncCommands ==
    << Api("fresh", NoneV, NoneV, NoneV, <<>>, "none"),
       Plain("old", <<>>, "none") >>

\* A base type and a subtype whose markings give one exposed name three
\* descriptors with overlapping ranges.
OverlapBaseCommands ==
    << Api("m", NoneV, NoneV, NoneV, <<>>, "base_m") >>

OverlapCommands ==
    << Api("m", NoneV, IntV(2), NoneV, <<>>, "derived_m"),
       Api("m_alt", StrV("m"), NoneV, IntV(3), <<>>, "derived_n") >>

Classes ==
    { "MyCommands", "NoCommands", "MyCommandsSync", "MyTestCommands",
      "Derived", "Mixed", "Edge" }

\* superclass.__dict__.items()
ClassDict(k) ==
    CASE k = "MyCommands" -> MyCommands
      [] k = "NoCommands" -> NoCommands
      [] k = "MyCommandsSync" -> MyCommandsSync
      [] k = "MyTestCommands" -> MyTestCommands
      [] k = "Base" -> BaseCommands
      [] k = "Derived" -> DerivedCommands
      [] k = "Mixed" -> MixedCommands
      [] k = "Edge" -> EdgeCommands
      [] k = "SyncBase" -> SyncBaseCommands
      [] k = "OverlapBase" -> OverlapBaseCommands
      [] k = "Overlap" -> OverlapCommands
      [] k = "DerivedSync" -> DerivedSyncCommands

\* command_object.__class__.__mro__, most derived first (object itself holds
\* nothing that carries the marking).
MRO(k) ==
    IF k = "Derived" THEN <<"Derived", "Base">>
    ELSE IF k = "DerivedSync" THEN <<"DerivedSync", "SyncBase">>
    ELSE IF k = "Overlap" THEN <<"Overlap", "OverlapBase">>
    ELSE <<k>>

----------------------------------------------------------------------------
(* Discovery *)

\* A walk that starts at the ancestor types.
RECURSIVE VisitOrder_basefirst(_, _)
VisitOrder_basefirst(mro, i) ==
    IF i > Len(mro) THEN << >>
    ELSE VisitOrder_basefirst(mro, i + 1)
         \o [j \in 1..Len(ClassDict(mro[i])) |-> [cls |-> mro[i], m |-> ClassDict(mro[i])[j]]]

\* The (class, method) pairs in the order the two loops of _iterate_functions
\* visit them.
RECURSIVE VisitOrder(_, _)
VisitOrder(mro, i) ==
    IF i > Len(mro) THEN << >>
    ELSE [j \in 1..Len(ClassDict(mro[i])) |-> [cls |-> mro[i], m |-> ClassDict(mro[i])[j]]]
         \o VisitOrder(mro, i + 1)

\* api_spec.name or func_object_name
ExposedName(m) ==
    IF m.api_name.cls = "NoneType" \/ m.api_name.s = "" THEN m.name ELSE m.api_name.s

\* A generator that passes over the marked methods it cannot use.
RECURSIVE Discover_lenient(_, _, _)
Discover_lenient(fs, i, acc) ==
    IF i > Len(fs) THEN [items |-> acc, err |-> ""]
    ELSE LET m == fs[i].m IN
         IF ~m.marked \/ ~m.is_async \/ ~m.spec_ok THEN Discover_lenient(fs, i + 1, acc)
         ELSE Discover_lenient(fs, i + 1,
                       Append(acc, [org |-> m.name, func_name |-> ExposedName(m),
                                    range |-> m.range,
                                    func |-> [cls |-> fs[i].cls, name |-> m.name]]))

\* The generator: what it yields before it ends, and the RpcDecoratorError
\* message it ends with ("" when it ends normally).
RECURSIVE Discover(_, _, _)
Discover(fs, i, acc) ==
    IF i > Len(fs) THEN [items |-> acc, err |-> ""]
    ELSE LET m == fs[i].m IN
         IF ~m.marked THEN Discover(fs, i + 1, acc)
         ELSE IF ~m.is_async THEN [items |-> acc, err |-> "Not an async function"]
         ELSE IF ~m.spec_ok THEN [items |-> acc, err |-> "Decorator malfunction"]
         ELSE Discover(fs, i + 1,
                       Append(acc, [org |-> m.name, func_name |-> ExposedName(m),
                                    range |-> m.range,
                                    func |-> [cls |-> fs[i].cls, name |-> m.name]]))

_iterate_functions(k) == Discover(VisitOrder(MRO(k), 1), 1, << >>)

\* The method record behind a function object.
MethodOf(func) ==
    LET d == ClassDict(func.cls)
    IN d[CHOOSE j \in 1..Len(d) : d[j].name = func.name]

----------------------------------------------------------------------------
(* SmoothRPCHost: the endpoint table *)

\* A table whose lists grow at the front.
AppendEntry_prepend(cmds, func_name, entry) ==
    [f \in DOMAIN cmds \cup {func_name} |->
        IF f = func_name
        THEN (IF f \in DOMAIN cmds THEN <<entry>> \o cmds[f] ELSE <<entry>>)
        ELSE cmds[f]]

\* self.commands.setdefault(func_name, []).append((version_range, func_bound))
AppendEntry(cmds, func_name, entry) ==
    [f \in DOMAIN cmds \cup {func_name} |->
        IF f = func_name
        THEN (IF f \in DOMAIN cmds THEN Append(cmds[f], entry) ELSE <<entry>>)
        ELSE cmds[f]]

RECURSIVE AppendAll(_, _, _, _)
AppendAll(cmds, items, i, obj) ==
    IF i > Len(items) THEN cmds
    ELSE AppendAll(AppendEntry(cmds, items[i].func_name,
                               [range |-> items[i].range, func |-> items[i].func,
                                obj |-> obj]),
                   items, i + 1, obj)

\* A register_commands that does not count what it appended.
register_commands_nocount(cmds, obj) ==
    LET d == _iterate_functions(obj.cls)
    IN [commands |-> AppendAll(cmds, d.items, 1, obj), err |-> d.err]

\* register_commands(command_object): the table afterwards and the message of
\* the RpcDecoratorError raised ("" when it returns).
register_commands(cmds, obj) ==
    LET d == _iterate_functions(obj.cls)
    IN [commands |-> AppendAll(cmds, d.items, 1, obj),
        err |-> IF d.err # "" THEN d.err
                ELSE IF Len(d.items) = 0 THEN "No decorated functions found"
                ELSE ""]

----------------------------------------------------------------------------
(* pickle and the frame payloads *)

\* AsyncNetworkConnection.MAX_MSG_SIZE
MAX_MSG_SIZE == 10 * 1024 * 1024

ApiCall(func_name, api_version, args, kwargs) ==
    [func_name |-> func_name, api_version |-> api_version, args |-> args,
     kwargs |-> kwargs]

NoCall == ApiCall("", NoneV, << >>, {})

\* The exception pickle.dumps(obj) raises, "" when it returns bytes: an
\* instance of a class defined inside a function cannot be looked up by name
\* (AttributeError, PicklingError from Python 3.12 on), a function without an
\* importable name raises PicklingError, an object that holds a lock has no
\* reduction at all (TypeError).  An object whose __reduce__ raises
\* PicklingError(lock) makes dumps raise just that, and the
\* RpcSerializationError that holds this exception holds the lock.
DumpsRaises(obj) ==
    CASE obj.cls \in {"LocalClass", "LocalError"} -> "AttributeError"
      [] obj.cls \in {"function", "BadReduce"} -> "PicklingError"
      [] obj.cls \in {"lock", "LockError"} -> "TypeError"
      [] obj.cls = "RpcSerializationError" /\ obj.a = "PicklingError(lock)" -> "TypeError"
      [] OTHER -> ""

\* The exception pickle.loads raises on the pickle of obj, "" when it returns
\* the object: an exception whose __init__ does not take its args back
\* cannot be rebuilt.
LoadsRaises(obj) == IF obj.cls = "CtorError" THEN "TypeError" ELSE ""

\* len(pickle.dumps(obj)): the content plus the opcodes around it.
PickleLen(obj) == IF obj.cls = "bytes" THEN obj.n + 9 ELSE 16 + Len(obj.s) + Len(obj.a)

\* The bytes pickle.dumps(obj) returns, as what pickle.loads makes of them.
Pickled(obj) ==
    [exc |-> LoadsRaises(obj), isCall |-> FALSE, call |-> NoCall, obj |-> obj,
     len |-> PickleLen(obj)]

\* pickle.dumps(call_obj) for an ApiCall of picklable arguments.
PickledCall(call) ==
    [exc |-> "", isCall |-> TRUE, call |-> call, obj |-> NoneV,
     len |-> 64 + Len(call.func_name) + Len(call.args) + Cardinality(call.kwargs)]

\* Bytes that are no pickle: pickle.loads raises exc on them (b"bork" raises
\* UnpicklingError, b"" raises EOFError).
Garbage(exc, len) ==
    [exc |-> exc, isCall |-> FALSE, call |-> NoCall, obj |-> NoneV, len |-> len]

\* SmoothRPCHost._pack_result: the bytes, or the exception that escapes.
_pack_result(obj) ==
    LET e == DumpsRaises(obj)
        ser == ExcV2("RpcSerializationError", "Could not pickle object", 0,
                     IF obj.cls = "BadReduce" THEN "PicklingError(lock)" ELSE e)
    IN IF e = "" THEN [raised |-> "", data |-> Pickled(obj)]
       ELSE IF e \in {"PicklingError", "AttributeError"}
            THEN [raised |-> DumpsRaises(ser), data |-> Pickled(ser)]
       ELSE [raised |-> e, data |-> Pickled(obj)]

\* An _unpack_call that hands on whatever it was given.
_unpack_call_lenient(data) == [raised |-> NoneV, call |-> data.call]

\* SmoothRPCHost._unpack_call: the ApiCall, or the exception raised.
_unpack_call(data) ==
    IF data.exc \in {"UnpicklingError", "IndexError", "AttributeError"}
    THEN [raised |-> ExcV("RpcProtocolError", "Failed to unpickle received data"),
          call |-> NoCall]
    ELSE IF data.exc # ""
    THEN [raised |-> ExcV(data.exc, ""), call |-> NoCall]
    ELSE IF ~data.isCall
    THEN [raised |-> ExcV("RpcProtocolError", "Invalid object received"), call |-> NoCall]
    ELSE [raised |-> NoneV, call |-> data.call]

----------------------------------------------------------------------------
(* Handlers *)

\* Python's binding of (*args, **kwargs) to the parameters after self: the
\* positional arguments fill the first parameters, the named ones the rest.
BindOk(params, args, kwargs) ==
    /\ Len(args) <= Len(params)
    /\ \A kw \in kwargs : \E j \in (Len(args) + 1)..Len(params) : params[j] = kw.k
    /\ \A j \in (Len(args) + 1)..Len(params) : \E kw \in kwargs : kw.k = params[j]

BoundArg(params, args, kwargs, j) ==
    IF j <= Len(args) THEN args[j]
    ELSE (CHOOSE kw \in kwargs : kw.k = params[j]).v

\* What a method body does with its arguments: [raised, val].  am_i_host is the
\* attribute MyCommands asserts on.
RunBody(body, params, args, kwargs, am_i_host) ==
    LET i == BoundArg(params, args, kwargs, 1)
        ret(v) == [raised |-> FALSE, val |-> v]
        exc(v) == [raised |-> TRUE, val |-> v]
        guarded(r) == IF am_i_host THEN r ELSE exc(ExcV("AssertionError", ""))
    IN CASE body = "inc_one" -> guarded(ret(IntV(i + 1)))
         [] body = "cmd2" -> guarded(ret(NoneV))
         [] body = "cmd2_old" -> guarded(ret(StrV(StrOf(i * i))))
         [] body = "cmd3" -> ret(StrV("no api marker"))
         [] body = "cmd4" -> ret(NoneV)
         [] body = "unserializable" -> ret(ObjV("LocalClass"))
         [] body = "base_m" -> ret(StrV("base m"))
         [] body = "base_n" -> ret(StrV("base n"))
         [] body = "derived_m" -> ret(StrV("derived m"))
         [] body = "derived_n" -> ret(StrV("derived n"))
         [] body = "raise_app" -> exc(ExcV("RuntimeError", "frop"))
         [] body = "raise_local" -> exc(ExcV("LocalError", "local"))
         [] body = "raise_lock" -> exc(ExcV("LockError", "lock"))
         [] body = "raise_ctor" -> exc(ExcV("CtorError", "1-2"))
         [] body = "ret_exc" -> ret(ExcV("RuntimeError", "returned"))
         [] body = "ret_lock" -> ret(ObjV("lock"))
         [] body = "ret_badreduce" -> ret(ObjV("BadReduce"))
         [] body = "ret_huge" -> ret(BytesV(MAX_MSG_SIZE))
         [] OTHER -> ret(NoneV)

\* matching_func(*args, **kwargs): a TypeError when the arguments do not fit
\* the signature, otherwise what the body returns or raises.
Invoke(func, args, kwargs, am_i_host) ==
    LET m == MethodOf(func)
    IN IF ~BindOk(m.params, args, kwargs)
       THEN [raised |-> TRUE, val |-> ExcV("TypeError", "arguments")]
       ELSE RunBody(m.body, m.params, args, kwargs, am_i_host)

\* A handler that never returns: it awaits something that never completes.
Hangs(func) == MethodOf(func).body = "hang"

\* A handler that never returns and never awaits: it keeps the thread of the
\* event loop (a loop without an await, a blocking call).
Spins(func) == MethodOf(func).body = "spin"

----------------------------------------------------------------------------
(* Dispatch *)

\* A loop without its break: the last matching entry wins.
RECURSIVE FirstMatch_nobreak(_, _, _)
FirstMatch_nobreak(version_list, version, i) ==
    IF i > Len(version_list) THEN 0
    ELSE LET later == FirstMatch_nobreak(version_list, version, i + 1)
         IN IF later # 0 THEN later
            ELSE IF Contains(version, version_list[i].range) THEN i ELSE 0

\* The for loop of _call_command: the index of the first entry of version_list
\* whose range contains the version, 0 when the loop runs to its else branch.
RECURSIVE FirstMatch(_, _, _)
FirstMatch(version_list, version, i) ==
    IF i > Len(version_list) THEN 0
    ELSE IF Contains(version, version_list[i].range) THEN i
    ELSE FirstMatch(version_list, version, i + 1)

\* A lookup that lets the KeyError of the dict escape.
_call_command_keyerror(cmds, call_obj) ==
    IF call_obj.func_name \notin DOMAIN cmds
    THEN [sel |-> 0, raised |-> ExcV("KeyError", call_obj.func_name)]
    ELSE LET i == FirstMatch(cmds[call_obj.func_name], call_obj.api_version, 1)
         IN IF i = 0
            THEN [sel |-> 0,
                  raised |-> ExcV2("RpcInvalidVersionError",
                                   "Api endpoint does not support api version",
                                   call_obj.api_version.n, "")]
            ELSE [sel |-> i, raised |-> NoneV]

\* _call_command up to the call of matching_func: the entry selected (sel > 0)
\* or the exception raised.
_call_command(cmds, call_obj) ==
    IF call_obj.func_name \notin DOMAIN cmds
    THEN [sel |-> 0,
          raised |-> ExcV2("RpcNoSuchApiError", "No such api", 0, call_obj.func_name)]
    ELSE IF ContainsRaises(call_obj.api_version, cmds[call_obj.func_name][1].range)
    THEN [sel |-> 0, raised |-> ExcV("RpcInternalError", "Can only compare int's")]
    ELSE LET i == FirstMatch(cmds[call_obj.func_name], call_obj.api_version, 1)
         IN IF i = 0
            THEN [sel |-> 0,
                  raised |-> ExcV2("RpcInvalidVersionError",
                                   "Api endpoint does not support api version",
                                   call_obj.api_version.n, "")]
            ELSE [sel |-> i, raised |-> NoneV]

----------------------------------------------------------------------------
(* Bytes and the frame codec of AsyncNetworkConnection.  A bytes value is
   kept run-length encoded: a sequence of runs of n > 0 equal bytes b, no two
   neighbours of the same b, so that b"A" * MAX_MSG_SIZE is one run. *)

\* b"" and bytes([b]) * n
Rep(b, n) == IF n = 0 THEN << >> ELSE <<[b |-> b, n |-> n]>>

\* len(bs)
RECURSIVE BLen(_)
BLen(bs) == IF bs = << >> THEN 0 ELSE bs[1].n + BLen(Tail(bs))

\* x + y
Cat(x, y) ==
    IF x = << >> THEN y
    ELSE IF y = << >> THEN x
    ELSE IF x[Len(x)].b = y[1].b
    THEN SubSeq(x, 1, Len(x) - 1)
         \o <<[b |-> y[1].b, n |-> x[Len(x)].n + y[1].n]>> \o Tail(y)
    ELSE x \o y

\* bs[:k], for k <= len(bs)
RECURSIVE Take(_, _)
Take(bs, k) ==
    IF k = 0 \/ bs = << >> THEN << >>
    ELSE IF bs[1].n <= k THEN <<bs[1]>> \o Take(Tail(bs), k - bs[1].n)
    ELSE <<[b |-> bs[1].b, n |-> k]>>

\* bs[k:], for k <= len(bs)
RECURSIVE Drop(_, _)
Drop(bs, k) ==
    IF k = 0 \/ bs = << >> THEN bs
    ELSE IF bs[1].n <= k THEN Drop(Tail(bs), k - bs[1].n)
    ELSE <<[b |-> bs[1].b, n |-> bs[1].n - k]>> \o Tail(bs)

\* list(bs), for a short bs
RECURSIVE Expand(_)
Expand(bs) ==
    IF bs = << >> THEN << >>
    ELSE <<bs[1].b>> \o Expand(Rep(bs[1].b, bs[1].n - 1) \o Tail(bs))

\* k.to_bytes(width) in little-endian order.
RECURSIVE to_bytes_little(_, _)
to_bytes_little(k, width) ==
    IF width = 0 THEN << >>
    ELSE Cat(Rep(k % 256, 1), to_bytes_little(k \div 256, width - 1))

\* k.to_bytes(width): big-endian, the default byte order.
RECURSIVE to_bytes(_, _)
to_bytes(k, width) ==
    IF width = 0 THEN << >>
    ELSE Cat(to_bytes(k \div 256, width - 1), Rep(k % 256, 1))

\* A length that is over the ceiling, whatever it is: recv_message only
\* compares it with MAX_MSG_SIZE.
OverCeiling == MAX_MSG_SIZE + 1

\* int.from_bytes(bytes(bl)) for a list bl of byte values, from the value acc
\* of the bytes before index i.  A value over the ceiling is kept as
\* OverCeiling.
RECURSIVE from_bytes(_, _, _)
from_bytes(bl, i, acc) ==
    IF i > Len(bl) THEN (IF acc > MAX_MSG_SIZE THEN OverCeiling ELSE acc)
    ELSE IF acc > MAX_MSG_SIZE \div 256 THEN OverCeiling
    ELSE from_bytes(bl, i + 1, acc * 256 + bl[i])

\* StreamReader.readexactly(k) on a stream whose unread bytes are buf; it
\* waits while fewer than k bytes are there and the stream is open, and at
\* the end of the stream raises IncompleteReadError with what was left.
ReadReady(buf, eof, k) == BLen(buf) >= k \/ eof

readexactly(buf, eof, k) ==
    IF BLen(buf) >= k
    THEN [raised |-> "", data |-> Take(buf, k), rest |-> Drop(buf, k)]
    ELSE [raised |-> "IncompleteReadError", data |-> buf, rest |-> << >>]

\* A send_message that refuses a payload of exactly the ceiling.
send_bytes_strict(data) ==
    IF BLen(data) >= MAX_MSG_SIZE
    THEN [raised |-> "RpcMaxSizeExceededError", written |-> << >>]
    ELSE [raised |-> "", written |-> Cat(to_bytes(BLen(data), 8), data)]

\* AsyncNetworkConnection.send_message on bytes: the exception raised, or the
\* bytes handed to writer.write.
send_bytes(data) ==
    IF BLen(data) > MAX_MSG_SIZE
    THEN [raised |-> "RpcMaxSizeExceededError", written |-> << >>]
    ELSE [raised |-> "", written |-> Cat(to_bytes(BLen(data), 8), data)]

\* A header check that lets a length of ceiling + 1 through.
HeaderTooLarge_lax(data_len) == data_len > MAX_MSG_SIZE + 1

\* recv_message, line 71
HeaderTooLarge(data_len) == data_len > MAX_MSG_SIZE

\* recv_message up to the read of the payload: the length header.
recv_header(buf, eof) ==
    LET r == readexactly(buf, eof, 8)
        data_len == from_bytes(Expand(r.data), 1, 0)
    IN IF r.raised # ""
       THEN [raised |-> r.raised, partial |-> BLen(r.data), data_len |-> 0,
             rest |-> r.rest]
       ELSE IF HeaderTooLarge(data_len)
       THEN [raised |-> "RpcMaxSizeExceededError", partial |-> 0,
             data_len |-> data_len, rest |-> r.rest]
       ELSE [raised |-> "", partial |-> 0, data_len |-> data_len, rest |-> r.rest]

\* recv_message from the read of the payload on.
recv_payload(buf, eof, data_len) ==
    LET r == readexactly(buf, eof, data_len)
    IN [raised |-> r.raised, partial |-> IF r.raised = "" THEN 0 ELSE BLen(r.data),
        data |-> IF r.raised = "" THEN r.data ELSE << >>, rest |-> r.rest]

\* recv_message on a stream that has ended: it never waits.
recv_message(buf) ==
    LET h == recv_header(buf, TRUE)
        p == recv_payload(h.rest, TRUE, h.data_len)
    IN IF h.raised # ""
       THEN [raised |-> h.raised, partial |-> h.partial, data |-> << >>, rest |-> h.rest]
       ELSE p

\* The stream and its two ends before anything was written.
InitWire ==
    [buf |-> << >>, eof |-> FALSE, raw |-> FALSE, sent |-> << >>, got |-> << >>,
     pc |-> "header", need |-> 0, err |-> "", partial |-> 0,
     last |-> << >>, wres |-> "none", nsend |-> 0, nwrites |-> 0]

\* A connection whose peer has not closed the stream.
NotClosed == [closed |-> FALSE, left |-> << >>, rest |-> << >>]

\* A lookup that takes the entry it selects out of the table.
CommandsAfterCall_consuming(cmds, call_obj) ==
    LET sel == _call_command(cmds, call_obj).sel
        l == cmds[call_obj.func_name]
    IN IF sel = 0 THEN cmds
       ELSE [cmds EXCEPT ![call_obj.func_name] =
                SubSeq(l, 1, sel - 1) \o SubSeq(l, sel + 1, Len(l))]

\* self.commands after _call_command: it reads the table and writes nothing.
CommandsAfterCall(cmds, call_obj) == cmds

----------------------------------------------------------------------------
(* State *)

NoEntry ==
    [range |-> VersionRange(NoneV, NoneV), func |-> [cls |-> "", name |-> ""],
     obj |-> [cls |-> "", id |-> 0]]

NoPayload == Garbage("", -1)

NoOutcome == [kind |-> "none", val |-> NoneV]

\* accept_connection at its start: the loop is about to receive.
InitHost ==
    [pc |-> "recv", call |-> NoCall, entry |-> NoEntry, err |-> NoneV,
     nrecv |-> 0, ninv |-> 0, nsent |-> 0]

\* An object that instrument_client_commands has not touched, on a connection
\* nothing has been written to.
InitClient ==
    [cls |-> "", api_version |-> NoneV, stubs |-> << >>, err |-> "",
     pc |-> "idle", ncalls |-> 0, nsent |-> 0, nrecvd |-> 0]

InitObs ==
    [req |-> NoPayload, call |-> NoCall, sel |-> 0, entry |-> NoEntry,
     out |-> NoOutcome, handled |-> "none", resp |-> NoPayload,
     method |-> "", args |-> << >>, kwargs |-> {}, stub |-> "none",
     result |-> NoOutcome, reqs |-> << >>, answers |-> << >>, epoch |-> 0]

\* SmoothRPCHost(network) of the SmoothRPC package, host_forever not yet
\* called, on a network nothing has been sent over.  shutAt and shutPc record
\* where the loop was when shutdown_after_call was first invoked (not program
\* state).
InitLegacy ==
    [keep_serve_loop_running |-> TRUE, pc |-> "init", inbox |-> << >>,
     outbox |-> << >>, call |-> NoCall, entry |-> NoEntry,
     nreq |-> 0, nrecv |-> 0, nsent |-> 0, shutAt |-> -1, shutPc |-> ""]

\* The tasks of a client program that share one instrumented object.
Tasks == {"A", "B"}

\* No stub call made yet, nothing in the StreamReader's buffer, no coroutine
\* waiting for data.  seq, nsend and clean are history (not program state):
\* the position of a task's request among the requests sent, the number of
\* requests sent, and whether every call so far began when no other call was
\* in progress.
InitConc ==
    [task |-> [t \in Tasks |-> [pc |-> "idle", seq |-> 0, result |-> NoOutcome,
                                 ncalls |-> 0]],
     buffer |-> << >>, waiter |-> "", nsend |-> 0, clean |-> TRUE]

InitCommon ==
    /\ commands = << >>
    /\ regs = 0
    /\ regResult = ""
    /\ c2h = [c \in Conns |-> << >>]
    /\ h2c = [c \in Conns |-> << >>]
    /\ host = [c \in Conns |-> InitHost]
    /\ client = [c \in Conns |-> InitClient]
    /\ obs = [c \in Conns |-> InitObs]
    /\ rangeCheck = [version |-> NoneV, range |-> VersionRange(NoneV, NoneV),
                     result |-> "none"]
    /\ wire = InitWire
    /\ tail = [c \in Conns |-> NotClosed]
    /\ legacy = InitLegacy
    /\ conc = InitConc

----------------------------------------------------------------------------
(* The host *)

\* host.register_commands(K()) on a new object of class K
Register(k) ==
    /\ regs < MaxRegs
    /\ LET r == register_commands(commands, [cls |-> k, id |-> regs + 1])
       IN /\ commands' = r.commands
          /\ regResult' = (IF r.err = "" THEN "ok" ELSE r.err)
    /\ regs' = regs + 1
    /\ UNCHANGED <<active, c2h, h2c, host, client, obs, rangeCheck, wire, tail, legacy, conc>>

\* AsyncNetworkConnection.send_message: the exception raised, or the frame
\* written to the stream.
send_message_twice(data) ==
    IF data.len > MAX_MSG_SIZE
    THEN [raised |-> ExcV("RpcMaxSizeExceededError",
                          "Trying to send message larger than allowed size on %s"),
          frames |-> << >>]
    ELSE [raised |-> NoneV, frames |-> <<data, data>>]

send_message(data) ==
    IF data.len > MAX_MSG_SIZE
    THEN [raised |-> ExcV("RpcMaxSizeExceededError",
                          "Trying to send message larger than allowed size on %s"),
          frames |-> << >>]
    ELSE [raised |-> NoneV, frames |-> <<data>>]

\* An end of _handle_one_command that drops what it cannot pack or send and
\* lets the loop go on.
PackAndSend_dropping(h, out) ==
    LET p == _pack_result(out)
        w == send_message(p.data)
        done == [h EXCEPT !.call = NoCall, !.entry = NoEntry, !.pc = "recv"]
    IN IF p.raised # "" \/ w.raised # NoneV
       THEN [h |-> done, frames |-> << >>]
       ELSE [h |-> [done EXCEPT !.nsent = @ + 1], frames |-> w.frames]

\* An end of _handle_one_command that sends an exception and raises it too.
PackAndSend_reraising(h, out) ==
    LET p == _pack_result(out)
        w == send_message(p.data)
        done == [h EXCEPT !.call = NoCall, !.entry = NoEntry]
    IN IF p.raised # ""
       THEN [h |-> [done EXCEPT !.pc = "raised", !.err = ExcV(p.raised, "cannot pickle")],
             frames |-> << >>]
       ELSE IF w.raised # NoneV
       THEN [h |-> [done EXCEPT !.pc = "raised", !.err = w.raised], frames |-> << >>]
       ELSE IF IsException(out)
       THEN [h |-> [done EXCEPT !.pc = "raised", !.err = out, !.nsent = @ + 1],
             frames |-> w.frames]
       ELSE [h |-> [done EXCEPT !.pc = "recv", !.nsent = @ + 1], frames |-> w.frames]

\* The end of _handle_one_command: pack the outcome and send it.  An exception
\* of either step leaves _handle_one_command and accept_connection.
PackAndSend(h, out) ==
    LET p == _pack_result(out)
        w == send_message(p.data)
        done == [h EXCEPT !.call = NoCall, !.entry = NoEntry]
    IN IF p.raised # ""
       THEN [h |-> [done EXCEPT !.pc = "raised", !.err = ExcV(p.raised, "cannot pickle")],
             frames |-> << >>]
       ELSE IF w.raised # NoneV
       THEN [h |-> [done EXCEPT !.pc = "raised", !.err = w.raised], frames |-> << >>]
       ELSE [h |-> [done EXCEPT !.pc = "recv", !.nsent = @ + 1], frames |-> w.frames]

\* What the history records of the end of a call.
Handled(o, out, kind, r) ==
    [o EXCEPT !.out = [kind |-> kind, val |-> out],
              !.handled = IF r.frames = << >> THEN "raised" ELSE "sent",
              !.resp = IF r.frames = << >> THEN NoPayload ELSE r.frames[1],
              !.answers = IF r.frames = << >> THEN @
                          ELSE Append(@, [k |-> r.h.nrecv, resp |-> r.frames[1]])]

\* One pass of the loop of accept_connection up to the call of the handler:
\* recv_message, _unpack_call, and _call_command's lookup.  A decoding error
\* ends the loop; a lookup error is the outcome, packed and sent at once.
\* Every serve loop is a task of one event loop: `await matching_func(...)`
\* runs the handler in the loop's thread, and the loop resumes another task
\* only when the running one awaits.
LoopFree ==
    \A d \in Conns : ~(host[d].pc = "call" /\ Spins(host[d].entry.func))

\* One connection object that every serve loop writes to.
ConnectionOf_shared(c) == "c1"

\* accept_connection wraps the reader and writer it was given in a connection
\* object of its own; its loop sends on that object only.
ConnectionOf(c) == c

HostReceive(c) ==
    /\ c \in active
    /\ LoopFree
    /\ host[c].pc = "recv"
    /\ c2h[c] # << >>
    /\ LET u == _unpack_call(Head(c2h[c]))
           d == _call_command(commands, u.call)
           h1 == [host[c] EXCEPT !.nrecv = @ + 1]
           o1 == [obs[c] EXCEPT !.call = u.call, !.sel = d.sel, !.epoch = regs]
           r == PackAndSend(h1, d.raised)
       IN /\ c2h' = [c2h EXCEPT ![c] = Tail(@)]
          /\ commands' = (IF u.raised # NoneV THEN commands
                          ELSE CommandsAfterCall(commands, u.call))
          /\ IF u.raised # NoneV
             THEN /\ host' = [host EXCEPT ![c] = [h1 EXCEPT !.pc = "raised", !.err = u.raised]]
                  /\ obs' = [obs EXCEPT ![c] = [@ EXCEPT !.handled = "raised"]]
                  /\ UNCHANGED h2c
             ELSE IF d.sel = 0
             THEN /\ host' = [host EXCEPT ![c] = r.h]
                  /\ h2c' = [h2c EXCEPT ![ConnectionOf(c)] = @ \o r.frames]
                  /\ obs' = [obs EXCEPT ![c] = Handled(o1, d.raised, "raise", r)]
             ELSE /\ host' = [host EXCEPT ![c] =
                        [h1 EXCEPT !.pc = "call", !.call = u.call, !.ninv = @ + 1,
                                   !.entry = commands[u.call.func_name][d.sel]]]
                  /\ obs' = [obs EXCEPT ![c] =
                        [o1 EXCEPT !.entry = commands[u.call.func_name][d.sel]]]
                  /\ UNCHANGED h2c
    /\ UNCHANGED <<regs, regResult, active, client, rangeCheck, wire, tail, legacy, conc>>

\* The handler returns or raises: the rest of _call_command and of
\* _handle_one_command.  What it raises is caught and becomes the outcome.
HostReturn(c) ==
    /\ c \in active
    /\ LoopFree
    /\ host[c].pc = "call"
    /\ ~Hangs(host[c].entry.func)
    /\ LET res == Invoke(host[c].entry.func, host[c].call.args, host[c].call.kwargs, TRUE)
           r == PackAndSend(host[c], res.val)
       IN /\ host' = [host EXCEPT ![c] = r.h]
          /\ h2c' = [h2c EXCEPT ![ConnectionOf(c)] = @ \o r.frames]
          /\ obs' = [obs EXCEPT ![c] =
                Handled(@, res.val, IF res.raised THEN "raise" ELSE "return", r)]
    /\ UNCHANGED <<commands, regs, regResult, active, c2h, client, rangeCheck, wire, tail, legacy, conc>>

----------------------------------------------------------------------------
(* A peer that writes request frames of its own making and reads the
   responses, as the tests of the host do. *)

ReqNames ==
    { "inc_one", "cmd2", "cmd4", "unserializable", "some_func", "m", "first",
      "raise_app", "raise_local", "raise_lock", "raise_ctor", "ret_exc", "ret_lock",
      "ret_badreduce", "ret_huge",
      "hang" }

\* api_version of a request: in and out of the ranges of the markings, and one
\* that is no int.
ReqVersions == {IntV(2), IntV(3), StrV("x")}

\* (args, kwargs) of a request: none, one positional, one named.
ReqArgs ==
    { [args |-> << >>, kwargs |-> {}], [args |-> <<1>>, kwargs |-> {}],
      [args |-> <<3>>, kwargs |-> {}], [args |-> << >>, kwargs |-> {[k |-> "i", v |-> 1]}] }

\* The requests a peer makes: every name at every version without arguments,
\* and the handlers that take an argument with every choice of arguments.
Requests ==
    { ApiCall(f, v, a.args, a.kwargs) : f \in {"inc_one", "cmd2"}, v \in ReqVersions,
                                        a \in ReqArgs }
    \cup { ApiCall(f, v, << >>, {}) : f \in ReqNames, v \in ReqVersions }

\* Payloads that are no pickled ApiCall: a pickled string, bytes that are no
\* pickle, no bytes at all.
BadPayloads ==
    { Pickled(StrV("banana")), Garbage("UnpicklingError", 4), Garbage("EOFError", 0) }

PeerPayloads == { PickledCall(q) : q \in Requests } \cup BadPayloads

\* The peer writes one frame, once the host has dealt with the one before.
PeerSend(c, data) ==
    /\ c \in active
    /\ client[c].cls = ""
    /\ client[c].ncalls < MaxCalls
    /\ c2h[c] = << >> /\ h2c[c] = << >> /\ host[c].pc # "call"
    /\ ~tail[c].closed
    /\ c2h' = [c2h EXCEPT ![c] = Append(@, data)]
    /\ client' = [client EXCEPT ![c] = [@ EXCEPT !.ncalls = @ + 1, !.nsent = @ + 1]]
    /\ obs' = [obs EXCEPT ![c] = [InitObs EXCEPT !.req = data, !.reqs = <<data>>]]
    /\ UNCHANGED <<commands, regs, regResult, active, h2c, host, rangeCheck, wire, tail, legacy, conc>>

\* The peer reads one response frame.
PeerRead(c) ==
    /\ c \in active
    /\ client[c].cls = ""
    /\ h2c[c] # << >>
    /\ h2c' = [h2c EXCEPT ![c] = Tail(@)]
    /\ client' = [client EXCEPT ![c] = [@ EXCEPT !.nrecvd = @ + 1]]
    /\ UNCHANGED <<commands, regs, regResult, active, c2h, host, obs, rangeCheck, wire, tail, legacy,
                 conc>>

\* What a peer leaves on the stream after its last whole frame when it
\* closes: nothing, a stray byte, seven bytes of a header, a header with none
\* or a part of its payload, a header over the ceiling.
Tails ==
    { << >>, Rep(120, 1), Rep(0, 7), to_bytes(5, 8), Cat(to_bytes(5, 8), Rep(97, 3)),
      to_bytes(MAX_MSG_SIZE, 8), Cat(to_bytes(MAX_MSG_SIZE + 1, 8), Rep(65, 3)) }

\* The peer writes what it leaves and closes the stream, once it has read the
\* responses to its requests.
PeerClose(c, left) ==
    /\ c \in active
    /\ client[c].cls = ""
    /\ c2h[c] = << >> /\ h2c[c] = << >> /\ host[c].pc # "call"
    /\ ~tail[c].closed
    /\ tail' = [tail EXCEPT ![c] = [closed |-> TRUE, left |-> left, rest |-> left]]
    /\ obs' = [obs EXCEPT ![c] = InitObs]
    /\ UNCHANGED <<commands, regs, regResult, active, c2h, h2c, host, client, rangeCheck,
                   wire, legacy, conc>>

\* An accept_connection that suppresses only at a stream that is not at its end.
NormalClose_open(raised, at_eof, partial) ==
    raised = "IncompleteReadError" /\ ~(at_eof \/ partial > 0)

\* The except clause of accept_connection: the exception is suppressed.
NormalClose(raised, at_eof, partial) ==
    raised = "IncompleteReadError" /\ ~(~at_eof \/ partial > 0)

\* The loop of accept_connection calls recv_message at the end of the stream:
\* recv_message raises, and accept_connection returns or raises in its turn.
HostClose(c) ==
    /\ c \in active
    /\ LoopFree
    /\ host[c].pc = "recv"
    /\ c2h[c] = << >>
    /\ tail[c].closed
    /\ LET r == recv_message(tail[c].rest)
           at_eof == r.rest = << >>
       IN /\ r.raised # ""
          /\ tail' = [tail EXCEPT ![c].rest = r.rest]
          /\ host' = [host EXCEPT ![c] =
                IF NormalClose(r.raised, at_eof, r.partial)
                THEN [@ EXCEPT !.pc = "closed"]
                ELSE [@ EXCEPT !.pc = "raised", !.err = ExcV(r.raised, "")]]
    /\ UNCHANGED <<commands, regs, regResult, active, c2h, h2c, client, obs, rangeCheck,
                   wire, legacy, conc>>

InitHostSide == InitCommon /\ active = {"c1"}

NextHost ==
    \/ \E k \in Classes : Register(k)
    \/ \E c \in Conns : HostReceive(c)
    \/ \E c \in Conns : HostReturn(c)
    \/ \E c \in Conns, data \in PeerPayloads : PeerSend(c, data)
    \/ \E c \in Conns : PeerRead(c)
    \/ \E c \in Conns, left \in Tails : PeerClose(c, left)
    \/ \E c \in Conns : HostClose(c)

SpecHost == InitHostSide /\ [][NextHost]_vars

----------------------------------------------------------------------------
(* The client *)

\* The api versions a client object is instrumented with.
InstrVersions == {IntV(2), IntV(3)}

\* A do_call that sends the name the method has on the class.
CallWrapper_orgname(func_name, api_version, func) ==
    [kind |-> "call", func_name |-> func.name, api_version |-> api_version,
     func |-> func]

\* What is installed under one name: do_call of _create_call_wrapper or
\* do_throw of _create_exception_wrapper, and the function it wraps.
CallWrapper(func_name, api_version, func) ==
    [kind |-> "call", func_name |-> func_name, api_version |-> api_version,
     func |-> func]

ExceptionWrapper(func) ==
    [kind |-> "throw", func_name |-> "", api_version |-> NoneV, func |-> func]

\* setattr(command_object, org_func_name, wrapper)
SetAttr(stubs, name, wrapper) ==
    [f \in DOMAIN stubs \cup {name} |-> IF f = name THEN wrapper ELSE stubs[f]]

\* A wrapper that calls whatever the range.
WrapperFor_norange(item, api_version) ==
    CallWrapper(item.func_name, api_version, item.func)

\* The wrapper instrument_client_commands builds for one discovered function.
WrapperFor(item, api_version) ==
    IF Contains(api_version, item.range)
    THEN CallWrapper(item.func_name, api_version, item.func)
    ELSE ExceptionWrapper(item.func)

RECURSIVE SetAll(_, _, _, _)
SetAll(stubs, items, i, api_version) ==
    IF i > Len(items) THEN stubs
    ELSE SetAll(SetAttr(stubs, items[i].org, WrapperFor(items[i], api_version)),
                items, i + 1, api_version)

\* instrument_client_commands(connection, api_version, command_object): the
\* attributes set on the object, and the message of the RpcDecoratorError that
\* ends the loop ("" when it returns).
instrument_client_commands(api_version, k) ==
    LET d == _iterate_functions(k)
    IN [stubs |-> SetAll(<< >>, d.items, 1, api_version), err |-> d.err]

\* The method names of an object of class k.
RECURSIVE MethodNames(_, _)
MethodNames(mro, i) ==
    IF i > Len(mro) THEN {}
    ELSE {ClassDict(mro[i])[j].name : j \in 1..Len(ClassDict(mro[i]))}
         \cup MethodNames(mro, i + 1)

\* Attribute lookup on the class: the first class of the MRO that defines name.
RECURSIVE Resolve(_, _, _)
Resolve(mro, i, name) ==
    IF \E j \in 1..Len(ClassDict(mro[i])) : ClassDict(mro[i])[j].name = name
    THEN [cls |-> mro[i], name |-> name]
    ELSE Resolve(mro, i + 1, name)

\* instrument_client_commands(connection, v, K()) on a new object of class K
Instrument(c, k, v) ==
    /\ c \in active
    /\ client[c].cls = "" /\ client[c].nsent = 0
    /\ LET r == instrument_client_commands(v, k)
       IN client' = [client EXCEPT ![c] =
              [@ EXCEPT !.cls = k, !.api_version = v, !.stubs = r.stubs,
                        !.err = IF r.err = "" THEN "ok" ELSE r.err]]
    /\ UNCHANGED <<commands, regs, regResult, active, c2h, h2c, host, obs, rangeCheck, wire, tail, legacy,
                 conc>>

\* await obj.name(*args, **kwargs): the instance attribute wins over the
\* class; do_throw raises, do_call pickles the ApiCall and sends it, a method
\* of the class runs its own body.
StubCall(c, name, a) ==
    /\ c \in active
    /\ client[c].cls # "" /\ client[c].pc = "idle"
    /\ client[c].ncalls < MaxCalls
    /\ c2h[c] = << >> /\ h2c[c] = << >>
    /\ name \in MethodNames(MRO(client[c].cls), 1)
    /\ LET cl == [client[c] EXCEPT !.ncalls = @ + 1]
           o == [InitObs EXCEPT !.method = name, !.args = a.args, !.kwargs = a.kwargs]
       IN IF name \notin DOMAIN client[c].stubs
          THEN LET res == Invoke(Resolve(MRO(client[c].cls), 1, name), a.args,
                                 a.kwargs, FALSE)
               IN /\ client' = [client EXCEPT ![c] = cl]
                  /\ obs' = [obs EXCEPT ![c] =
                        [o EXCEPT !.stub = "local",
                                  !.result = [kind |-> IF res.raised THEN "raise"
                                                       ELSE "return",
                                              val |-> res.val]]]
                  /\ UNCHANGED c2h
          ELSE IF client[c].stubs[name].kind = "throw"
          THEN /\ client' = [client EXCEPT ![c] = cl]
               /\ obs' = [obs EXCEPT ![c] =
                     [o EXCEPT !.stub = "throw",
                               !.result = [kind |-> "raise",
                                           val |-> ExcV("RpcApiVersionMismatchError",
                                  "Client API disabled due to api version restriction.")]]]
               /\ UNCHANGED c2h
          ELSE LET st == client[c].stubs[name]
                   in_data == PickledCall(ApiCall(st.func_name, st.api_version,
                                                  a.args, a.kwargs))
                   w == send_message(in_data)
               IN /\ c2h' = [c2h EXCEPT ![c] = @ \o w.frames]
                  /\ client' = [client EXCEPT ![c] =
                        [cl EXCEPT !.pc = IF w.raised = NoneV THEN "waiting" ELSE "idle",
                                   !.nsent = @ + Len(w.frames)]]
                  /\ obs' = [obs EXCEPT ![c] =
                        [o EXCEPT !.stub = "call",
                                  !.req = IF w.raised = NoneV THEN in_data ELSE NoPayload,
                                  !.result = IF w.raised = NoneV THEN NoOutcome
                                             ELSE [kind |-> "raise", val |-> w.raised]]]
    /\ UNCHANGED <<commands, regs, regResult, active, h2c, host, rangeCheck, wire, tail, legacy, conc>>

\* A do_call that returns whatever it unpickled.
DecodeResponse_noraise(out_data) ==
    IF out_data.exc # "" THEN [kind |-> "raise", val |-> ExcV(out_data.exc, "")]
    ELSE [kind |-> "return", val |-> out_data.obj]

\* A do_call that raises only what it takes for an error of the library.
DecodeResponse_rpconly(out_data) ==
    IF out_data.exc \in {"UnpicklingError", "IndexError", "AttributeError"}
    THEN [kind |-> "raise",
          val |-> ExcV("RpcProtocolError", "Received response that could not be unpickled")]
    ELSE IF out_data.exc # "" THEN [kind |-> "raise", val |-> ExcV(out_data.exc, "")]
    ELSE IF out_data.isCall THEN [kind |-> "return", val |-> ObjV("ApiCall")]
    ELSE IF out_data.obj.cls \in {"RpcNoSuchApiError", "RpcInvalidVersionError",
                                  "RpcSerializationError", "RpcInternalError"}
         THEN [kind |-> "raise", val |-> out_data.obj]
    ELSE [kind |-> "return", val |-> out_data.obj]

\* A do_call that turns every error response into None.
DecodeResponse_swallow(out_data) ==
    IF out_data.exc = "" /\ ~out_data.isCall /\ ~IsException(out_data.obj)
    THEN [kind |-> "return", val |-> out_data.obj]
    ELSE [kind |-> "return", val |-> NoneV]

\* The second half of do_call: what it returns or raises for a received payload.
DecodeResponse(out_data) ==
    IF out_data.exc \in {"UnpicklingError", "IndexError", "AttributeError"}
    THEN [kind |-> "raise",
          val |-> ExcV("RpcProtocolError", "Received response that could not be unpickled")]
    ELSE IF out_data.exc # "" THEN [kind |-> "raise", val |-> ExcV(out_data.exc, "")]
    ELSE IF out_data.isCall THEN [kind |-> "return", val |-> ObjV("ApiCall")]
    ELSE IF IsException(out_data.obj) THEN [kind |-> "raise", val |-> out_data.obj]
    ELSE [kind |-> "return", val |-> out_data.obj]

\* do_call resumes with the response frame.
StubReturn(c) ==
    /\ c \in active
    /\ client[c].pc = "waiting"
    /\ h2c[c] # << >>
    /\ h2c' = [h2c EXCEPT ![c] = Tail(@)]
    /\ client' = [client EXCEPT ![c] = [@ EXCEPT !.pc = "idle", !.nrecvd = @ + 1]]
    /\ obs' = [obs EXCEPT ![c] = [@ EXCEPT !.result = DecodeResponse(Head(h2c[c]))]]
    /\ UNCHANGED <<commands, regs, regResult, active, c2h, host, rangeCheck, wire, tail, legacy, conc>>

\* The responses a peer of its own making gives, as the tests of the client do:
\* pickled values, pickled exceptions, a pickled SystemExit (a BaseException
\* that is no Exception), bytes that are no pickle.
ResponsePayloads ==
    { Pickled(IntV(42)), Pickled(NoneV), Pickled(StrV("9")), Pickled(ObjV("SystemExit")),
      Pickled(ExcV("RuntimeError", "frop")), Pickled(ExcV("CtorError", "1-2")),
      Garbage("UnpicklingError", 4), Garbage("EOFError", 0) }

\* The peer takes the request frame and answers it.
PeerRespond(c, data) ==
    /\ c \in active
    /\ client[c].pc = "waiting"
    /\ c2h[c] # << >>
    /\ c2h' = [c2h EXCEPT ![c] = Tail(@)]
    /\ h2c' = [h2c EXCEPT ![c] = Append(@, data)]
    /\ obs' = [obs EXCEPT ![c] = [@ EXCEPT !.resp = data]]
    /\ UNCHANGED <<commands, regs, regResult, active, host, client, rangeCheck, wire, tail, legacy, conc>>

NextClient ==
    \/ \E c \in Conns, k \in Classes, v \in InstrVersions : Instrument(c, k, v)
    \/ \E c \in Conns, name \in ReqNames \cup {"cmd2_old", "cmd3", "n", "cmd1", "bad", "late"},
          a \in ReqArgs : StubCall(c, name, a)
    \/ \E c \in Conns, data \in ResponsePayloads : PeerRespond(c, data)
    \/ \E c \in Conns : StubReturn(c)

SpecClient == InitHostSide /\ [][NextClient]_vars

----------------------------------------------------------------------------
(* Client and host on one connection *)

Next ==
    \/ \E k \in Classes : Register(k)
    \/ \E c \in Conns, k \in Classes, v \in InstrVersions : Instrument(c, k, v)
    \/ \E c \in Conns, name \in ReqNames \cup {"cmd2_old", "cmd3", "n", "cmd1", "bad", "late"},
          a \in ReqArgs : StubCall(c, name, a)
    \/ \E c \in Conns : HostReceive(c)
    \/ \E c \in Conns : HostReturn(c)
    \/ \E c \in Conns : StubReturn(c)

Init == InitCommon /\ active = {"c1"}

Spec == Init /\ [][Next]_vars

----------------------------------------------------------------------------
(* Range checks on their own *)

RangeEnds == {NoneV} \cup {IntV(k) : k \in 1..MaxVersion}

RangeVersions == {IntV(k) : k \in 0..(MaxVersion + 1)} \cup {StrV("x")}

\* version in VersionRange(mn, mx)
CheckRange(version, mn, mx) ==
    /\ rangeCheck' =
          [version |-> version, range |-> VersionRange(mn, mx),
           result |-> IF ContainsRaises(version, VersionRange(mn, mx))
                      THEN "RpcInternalError"
                      ELSE IF Contains(version, VersionRange(mn, mx)) THEN "True"
                      ELSE "False"]
    /\ UNCHANGED <<commands, regs, regResult, active, c2h, h2c, host, client, obs, wire, tail, legacy,
                 conc>>

NextRange == \E version \in RangeVersions, mn \in RangeEnds, mx \in RangeEnds :
                 CheckRange(version, mn, mx)

InitRange == InitCommon /\ active = {}

SpecRange == InitRange /\ [][NextRange]_vars

----------------------------------------------------------------------------
(* The frame codec on one byte stream: send_message at one end, recv_message
   at the other, and a peer that may also write bytes of its own and close. *)

\* Payloads handed to send_message: of length 0, 1, 2, of the ceiling and of
\* one more, with bytes that run into those of a length header.
FramePayloads ==
    { << >>, Rep(65, 1), Rep(1, 1), Cat(Rep(0, 1), Rep(7, 1)),
      Rep(65, MAX_MSG_SIZE), Cat(Rep(0, 9), Rep(65, MAX_MSG_SIZE - 9)),
      Rep(65, MAX_MSG_SIZE + 1) }

\* Bytes a peer writes without send_message: a stray byte, seven bytes of a
\* header, a header with part of its payload or with none of it, headers over
\* the ceiling.
RawWrites ==
    { Rep(120, 1), Rep(0, 7), Cat(to_bytes(5, 8), Rep(97, 3)), to_bytes(5, 8),
      Cat(to_bytes(MAX_MSG_SIZE + 1, 8), Rep(65, 3)), Rep(255, 8),
      to_bytes(MAX_MSG_SIZE, 8) }

\* await connection.send_message(data)
FrameSend(data) ==
    /\ wire.nsend < MaxFrames
    /\ ~wire.eof
    /\ LET w == send_bytes(data)
       IN wire' = [wire EXCEPT
              !.last = data, !.nsend = @ + 1,
              !.wres = IF w.raised = "" THEN "ok" ELSE w.raised,
              !.buf = Cat(@, w.written),
              !.sent = IF w.raised = "" THEN Append(@, data) ELSE @,
              !.nwrites = IF w.raised = "" THEN @ + 1 ELSE @]
    /\ UNCHANGED <<commands, regs, regResult, active, c2h, h2c, host, client, obs,
                   rangeCheck, tail, legacy, conc>>

\* writer.write(bs) by a peer that does not frame what it writes
FrameWriteRaw(bs) ==
    /\ ~wire.raw /\ ~wire.eof
    /\ wire' = [wire EXCEPT !.raw = TRUE, !.buf = Cat(@, bs)]
    /\ UNCHANGED <<commands, regs, regResult, active, c2h, h2c, host, client, obs,
                   rangeCheck, tail, legacy, conc>>

\* writer.close()
FrameClose ==
    /\ ~wire.eof
    /\ wire' = [wire EXCEPT !.eof = TRUE]
    /\ UNCHANGED <<commands, regs, regResult, active, c2h, h2c, host, client, obs,
                   rangeCheck, tail, legacy, conc>>

\* recv_message until its first await has returned: the length header
FrameRecvHeader ==
    /\ wire.pc = "header"
    /\ ReadReady(wire.buf, wire.eof, 8)
    /\ LET h == recv_header(wire.buf, wire.eof)
       IN wire' = [wire EXCEPT
              !.buf = h.rest, !.err = h.raised, !.partial = h.partial,
              !.need = h.data_len,
              !.pc = IF h.raised = "" THEN "payload" ELSE "raised"]
    /\ UNCHANGED <<commands, regs, regResult, active, c2h, h2c, host, client, obs,
                   rangeCheck, tail, legacy, conc>>

\* the rest of recv_message: the payload
FrameRecvPayload ==
    /\ wire.pc = "payload"
    /\ ReadReady(wire.buf, wire.eof, wire.need)
    /\ LET p == recv_payload(wire.buf, wire.eof, wire.need)
       IN wire' = [wire EXCEPT
              !.buf = p.rest, !.err = p.raised, !.partial = p.partial, !.need = 0,
              !.got = IF p.raised = "" THEN Append(@, p.data) ELSE @,
              !.pc = IF p.raised = "" THEN "header" ELSE "raised"]
    /\ UNCHANGED <<commands, regs, regResult, active, c2h, h2c, host, client, obs,
                   rangeCheck, tail, legacy, conc>>

NextFrame ==
    \/ \E data \in FramePayloads : FrameSend(data)
    \/ \E bs \in RawWrites : FrameWriteRaw(bs)
    \/ FrameClose
    \/ FrameRecvHeader
    \/ FrameRecvPayload

InitFrame == InitCommon /\ active = {}

SpecFrame == InitFrame /\ [][NextFrame]_vars

----------------------------------------------------------------------------
(* A peer that does not wait for the response before it writes the next
   request. *)

PipeClasses == {"MyCommands", "Edge"}

PipePayloads ==
    { PickledCall(ApiCall("inc_one", IntV(3), <<1>>, {})),
      PickledCall(ApiCall("inc_one", IntV(3), <<3>>, {})),
      PickledCall(ApiCall("inc_one", IntV(2), <<1>>, {})),
      PickledCall(ApiCall("inc_one", IntV(3), << >>, {})),
      PickledCall(ApiCall("some_func", IntV(2), << >>, {})),
      PickledCall(ApiCall("unserializable", IntV(2), << >>, {})),
      PickledCall(ApiCall("raise_app", IntV(2), << >>, {})),
      PickledCall(ApiCall("ret_huge", IntV(2), << >>, {})),
      PickledCall(ApiCall("hang", IntV(2), << >>, {})),
      Garbage("UnpicklingError", 4) }

\* The peer writes one more frame, whatever the host is doing.
PipeSend(c, data) ==
    /\ c \in active
    /\ client[c].cls = ""
    /\ client[c].ncalls < MaxCalls
    /\ ~tail[c].closed
    /\ c2h' = [c2h EXCEPT ![c] = Append(@, data)]
    /\ client' = [client EXCEPT ![c] = [@ EXCEPT !.ncalls = @ + 1, !.nsent = @ + 1]]
    /\ obs' = [obs EXCEPT ![c] = [@ EXCEPT !.reqs = Append(@, data)]]
    /\ UNCHANGED <<commands, regs, regResult, active, h2c, host, rangeCheck, wire, tail, legacy, conc>>

NextPipe ==
    \/ \E k \in PipeClasses : Register(k)
    \/ \E c \in Conns, data \in PipePayloads : PipeSend(c, data)
    \/ \E c \in Conns : HostReceive(c)
    \/ \E c \in Conns : HostReturn(c)
    \/ \E c \in Conns : PeerRead(c)

InitPipe == InitCommon /\ active = {"c1"}

SpecPipe == InitPipe /\ [][NextPipe]_vars

----------------------------------------------------------------------------
(* Several connections against one host *)

MultiPayloads ==
    { PickledCall(ApiCall("inc_one", IntV(3), <<1>>, {})),
      PickledCall(ApiCall("inc_one", IntV(2), <<1>>, {})),
      PickledCall(ApiCall("some_func", IntV(2), << >>, {})),
      PickledCall(ApiCall("hang", IntV(2), << >>, {})),
      PickledCall(ApiCall("spin", IntV(2), << >>, {})) }

\* What a peer leaves on the stream when it closes: a single byte, which is no
\* frame.
MultiTails == { Rep(120, 1) }

NextMulti ==
    \/ \E k \in PipeClasses : Register(k)
    \/ \E c \in Conns, data \in MultiPayloads : PeerSend(c, data)
    \/ \E c \in Conns : HostReceive(c)
    \/ \E c \in Conns : HostReturn(c)
    \/ \E c \in Conns : PeerRead(c)
    \/ \E c \in Conns, left \in MultiTails : PeerClose(c, left)
    \/ \E c \in Conns : HostClose(c)

InitMulti == InitCommon /\ active = Conns

SpecMulti == InitMulti /\ [][NextMulti]_vars

----------------------------------------------------------------------------
(* Discovery on the host and on the client *)

DiscoverClasses == Classes \cup {"DerivedSync"}

NextDiscover ==
    \/ \E k \in DiscoverClasses : Register(k)
    \/ \E c \in Conns, k \in DiscoverClasses, v \in InstrVersions : Instrument(c, k, v)

InitDiscover == InitCommon /\ active = Conns

SpecDiscover == InitDiscover /\ [][NextDiscover]_vars

----------------------------------------------------------------------------
(* The host of the SmoothRPC package: one network, objects sent and received
   whole, a serve loop that runs while keep_serve_loop_running is set *)

LegacyClasses == {"MyCommands", "Edge"}

\* What the peer sends: requests that are answered by a handler, by a lookup
\* error, by a handler that raises or returns what cannot be pickled, by a
\* handler that never returns; an object that is no ApiCall; bytes that are no
\* pickle.
LegacyPayloads ==
    { PickledCall(ApiCall("inc_one", IntV(3), <<1>>, {})),
      PickledCall(ApiCall("some_func", IntV(2), << >>, {})),
      PickledCall(ApiCall("raise_lock", IntV(2), << >>, {})),
      PickledCall(ApiCall("ret_lock", IntV(2), << >>, {})),
      PickledCall(ApiCall("hang", IntV(2), << >>, {})),
      Pickled(StrV("banana")),
      Garbage("UnpicklingError", 4) }

\* A serve loop that does not look at the flag.
AfterCall_ignoring(keep) == "recv"

\* `while self.keep_serve_loop_running and self.network is not None`: where
\* host_forever goes when _host_one has returned.
AfterCall(keep) == IF keep THEN "recv" ELSE "returned"

\* _host_one's sends: the object that goes out for an outcome.  send_pyobj(out)
\* that fails is answered by sending the exception of the failure; a
\* send_pyobj(exc) that fails is answered by sending RpcInternalError.
LegacyResponse(raised, val) ==
    IF DumpsRaises(val) = "" THEN val
    ELSE IF ~raised THEN ExcV(DumpsRaises(val), "")
    ELSE ExcV("RpcInternalError", "Exception while returning exception")

\* The legacy register_commands: every discovered function is appended.
LegacyRegister(k) ==
    /\ regs < MaxRegs
    /\ commands' = AppendAll(commands, _iterate_functions(k).items, 1,
                             [cls |-> k, id |-> regs + 1])
    /\ regs' = regs + 1
    /\ regResult' = "ok"
    /\ UNCHANGED <<active, c2h, h2c, host, client, obs, rangeCheck, wire, tail, legacy, conc>>

\* await rpc.host_forever(): the loop condition is looked at for the first time.
LegacyStart ==
    /\ legacy.pc = "init"
    /\ legacy' = [legacy EXCEPT !.pc = AfterCall(legacy.keep_serve_loop_running)]
    /\ UNCHANGED <<commands, regs, regResult, active, c2h, h2c, host, client, obs,
                   rangeCheck, wire, tail, conc>>

\* The peer sends a request once its last one has been answered.
LegacyPeerSend(data) ==
    /\ legacy.nreq < MaxCalls
    /\ legacy.inbox = << >> /\ legacy.nsent = legacy.nreq
    /\ legacy' = [legacy EXCEPT !.inbox = <<data>>, !.nreq = @ + 1]
    /\ UNCHANGED <<commands, regs, regResult, active, c2h, h2c, host, client, obs,
                   rangeCheck, wire, tail, conc>>

\* _host_one up to the await of the handler: recv_pyobj returns or raises, the
\* object is checked, the entry is looked up; every exception is sent back.
LegacyReceive ==
    /\ legacy.pc = "recv"
    /\ legacy.inbox # << >>
    /\ LET data == Head(legacy.inbox)
           d == _call_command(commands, data.call)
           l1 == [legacy EXCEPT !.inbox = Tail(@), !.nrecv = @ + 1]
           answered(exc) ==
               [l1 EXCEPT !.outbox = Append(@, LegacyResponse(TRUE, exc)),
                          !.nsent = @ + 1,
                          !.pc = AfterCall(legacy.keep_serve_loop_running)]
       IN legacy' =
            IF data.exc # "" THEN answered(ExcV(data.exc, ""))
            ELSE IF ~data.isCall
                 THEN answered(ExcV("RpcProtocolError", "Invalid object received"))
            ELSE IF d.sel = 0 THEN answered(d.raised)
            ELSE [l1 EXCEPT !.pc = "call", !.call = data.call,
                            !.entry = commands[data.call.func_name][d.sel]]
    /\ UNCHANGED <<commands, regs, regResult, active, c2h, h2c, host, client, obs,
                   rangeCheck, wire, tail, conc>>

\* The handler returns or raises; _host_one sends the outcome and returns.
LegacyReturn ==
    /\ legacy.pc = "call"
    /\ ~Hangs(legacy.entry.func)
    /\ LET res == Invoke(legacy.entry.func, legacy.call.args, legacy.call.kwargs, TRUE)
       IN legacy' = [legacy EXCEPT
                        !.outbox = Append(@, LegacyResponse(res.raised, res.val)),
                        !.nsent = @ + 1,
                        !.pc = AfterCall(legacy.keep_serve_loop_running)]
    /\ UNCHANGED <<commands, regs, regResult, active, c2h, h2c, host, client, obs,
                   rangeCheck, wire, tail, conc>>

\* rpc.shutdown_after_call(), from a handler or from another task, wherever the
\* loop is.
shutdown_after_call ==
    /\ legacy.keep_serve_loop_running
    /\ legacy' = [legacy EXCEPT !.keep_serve_loop_running = FALSE,
                                !.shutAt = legacy.nrecv, !.shutPc = legacy.pc]
    /\ UNCHANGED <<commands, regs, regResult, active, c2h, h2c, host, client, obs,
                   rangeCheck, wire, tail, conc>>

NextLegacy ==
    \/ \E k \in LegacyClasses : LegacyRegister(k)
    \/ LegacyStart
    \/ \E data \in LegacyPayloads : LegacyPeerSend(data)
    \/ LegacyReceive
    \/ LegacyReturn
    \/ shutdown_after_call

InitLegacySide == InitCommon /\ active = {}

\* The event loop runs a task that can run: host_forever is not left waiting
\* when its request has arrived or its handler has returned.
SpecLegacy ==
    /\ InitLegacySide
    /\ [][NextLegacy]_vars
    /\ WF_vars(LegacyStart) /\ WF_vars(LegacyReceive) /\ WF_vars(LegacyReturn)

----------------------------------------------------------------------------
(* Client and host on one connection, and a peer that may answer a request in
   the host's place with a payload of its own making *)

NextRetry ==
    \/ \E k \in PipeClasses : Register(k)
    \/ \E c \in Conns, k \in PipeClasses, v \in InstrVersions : Instrument(c, k, v)
    \/ \E c \in Conns, name \in ReqNames, a \in ReqArgs : StubCall(c, name, a)
    \/ \E c \in Conns : HostReceive(c)
    \/ \E c \in Conns : HostReturn(c)
    \/ \E c \in Conns, data \in ResponsePayloads : PeerRespond(c, data)
    \/ \E c \in Conns : StubReturn(c)

InitRetry == InitCommon /\ active = {"c1"}

SpecRetry == InitRetry /\ [][NextRetry]_vars

----------------------------------------------------------------------------
(* Registration order and dispatch *)

OrderClasses == {"MyCommands", "Derived", "Overlap"}

OrderPayloads ==
    { PickledCall(ApiCall(f, IntV(v), << >>, {})) : f \in {"m", "cmd2", "n"}, v \in 1..3 }

NextOrder ==
    \/ \E k \in OrderClasses : Register(k)
    \/ \E c \in Conns, data \in OrderPayloads : PeerSend(c, data)
    \/ \E c \in Conns : HostReceive(c)
    \/ \E c \in Conns : HostReturn(c)
    \/ \E c \in Conns : PeerRead(c)

InitOrder == InitCommon /\ active = {"c1"}

SpecOrder == InitOrder /\ [][NextOrder]_vars

----------------------------------------------------------------------------
(* Stub calls of several tasks on one connection.  A frame reaches the
   StreamReader whole. *)

ConcRequests ==
    { ApiCall("inc_one", IntV(3), <<1>>, {}), ApiCall("inc_one", IntV(3), <<3>>, {}) }

\* `await connection.recv_message()` as far as it gets without data arriving:
\* readexactly takes what the buffer holds; with the buffer empty it waits,
\* and StreamReader raises RuntimeError when another coroutine is waiting.
ConcRead(cn, t) ==
    IF cn.buffer # << >>
    THEN [cn EXCEPT !.buffer = Tail(@),
                    !.task[t].pc = "done",
                    !.task[t].result = DecodeResponse(Head(cn.buffer))]
    ELSE IF cn.waiter # ""
    THEN [cn EXCEPT !.task[t].pc = "done",
                    !.task[t].result =
                        [kind |-> "raise",
                         val |-> ExcV("RuntimeError",
                                      "readexactly() called while another coroutine is already waiting for incoming data")]]
    ELSE [cn EXCEPT !.waiter = t, !.task[t].pc = "waiting"]

\* Task t awaits a stub: do_call pickles the ApiCall, writes the frame (drain
\* does not suspend) and goes on to receive.
ConcCall(t, q) ==
    /\ "c1" \in active
    /\ conc.task[t].pc \in {"idle", "done"}
    /\ conc.nsend <= MaxCalls
    /\ LET w == send_message(PickledCall(q))
           c0 == [conc EXCEPT !.task[t].ncalls = @ + 1,
                              !.task[t].seq = conc.nsend + 1,
                              !.task[t].result = NoOutcome,
                              !.nsend = @ + 1,
                              !.clean = @ /\ \A u \in Tasks \ {t} :
                                                conc.task[u].pc \notin {"waiting", "woken"}]
       IN /\ c2h' = [c2h EXCEPT !["c1"] = @ \o w.frames]
          /\ conc' = ConcRead(c0, t)
    /\ UNCHANGED <<commands, regs, regResult, active, h2c, host, client, obs, rangeCheck,
                   wire, tail, legacy>>

\* feed_data: a frame arrives in the buffer; the coroutine waiting for data is
\* no longer the waiter and its wake-up is scheduled.
ConcFeed ==
    /\ h2c["c1"] # << >>
    /\ \A c \in Conns : client[c].cls = ""
    /\ h2c' = [h2c EXCEPT !["c1"] = Tail(@)]
    /\ conc' = IF conc.waiter = ""
               THEN [conc EXCEPT !.buffer = Append(@, Head(h2c["c1"]))]
               ELSE [conc EXCEPT !.buffer = Append(@, Head(h2c["c1"])),
                                 !.task[conc.waiter].pc = "woken",
                                 !.waiter = ""]
    /\ UNCHANGED <<commands, regs, regResult, active, c2h, host, client, obs, rangeCheck,
                   wire, tail, legacy>>

\* The woken coroutine runs: readexactly looks at the buffer again.
ConcWake(t) ==
    /\ conc.task[t].pc = "woken"
    /\ conc' = ConcRead(conc, t)
    /\ UNCHANGED <<commands, regs, regResult, active, c2h, h2c, host, client, obs,
                   rangeCheck, wire, tail, legacy>>

NextConc ==
    \/ Register("MyCommands")
    \/ \E t \in Tasks, q \in ConcRequests : ConcCall(t, q)
    \/ ConcFeed
    \/ \E t \in Tasks : ConcWake(t)
    \/ HostReceive("c1")
    \/ HostReturn("c1")

InitConcSide == InitCommon /\ active = {"c1"}

SpecConc == InitConcSide /\ [][NextConc]_vars

----------------------------------------------------------------------------
(* Stub calls of one task, some of them cancelled while they wait for the
   response (task.cancel(), or the timeout of asyncio.wait_for). *)

\* CancelledError is thrown into do_call at `await connection.recv_message()`:
\* do_call has no handler for it, the request stays sent, and the coroutine
\* is no longer the one waiting on the StreamReader.
ConcCancel(t) ==
    /\ conc.task[t].pc \in {"waiting", "woken"}
    /\ conc' = [conc EXCEPT !.task[t].pc = "done",
                            !.task[t].result =
                                [kind |-> "raise", val |-> ExcV("CancelledError", "")],
                            !.waiter = IF @ = t THEN "" ELSE @]
    /\ UNCHANGED <<commands, regs, regResult, active, c2h, h2c, host, client, obs,
                   rangeCheck, wire, tail, legacy>>

NextAbandon ==
    \/ Register("MyCommands")
    \/ \E q \in ConcRequests : ConcCall("A", q)
    \/ ConcFeed
    \/ ConcWake("A")
    \/ ConcCancel("A")
    \/ HostReceive("c1")
    \/ HostReturn("c1")

SpecAbandon == InitConcSide /\ [][NextAbandon]_vars

----------------------------------------------------------------------------
(* One type on both sides: an object of it registered on the host, another
   instrumented on the client, and calls of its methods *)

AgreeClasses == {"MyCommands", "Derived", "Overlap"}

NextAgree ==
    \/ \E k \in AgreeClasses : Register(k)
    \/ \E c \in Conns, k \in AgreeClasses, v \in 1..3 : Instrument(c, k, IntV(v))
    \/ \E c \in Conns, name \in {"inc_one", "cmd2", "cmd2_old", "m", "m_alt", "n"},
          a \in { [args |-> << >>, kwargs |-> {}], [args |-> <<1>>, kwargs |-> {}] } :
          StubCall(c, name, a)
    \/ \E c \in Conns : HostReceive(c)
    \/ \E c \in Conns : HostReturn(c)
    \/ \E c \in Conns : StubReturn(c)

SpecAgree == InitRetry /\ [][NextAgree]_vars

----------------------------------------------------------------------------
(* Properties *)

\* C1: whenever the host has called a handler for a request (name, version),
\* the name is in the table and the handler is the entry at the first position,
\* in registration order, of the name's list whose range contains the version:
\* no entry before it contains the version, and the call in progress is the
\* only invocation made for the request.  With the list [min=3, max=2] of
\* MyCommands' cmd2, version 2 selects the second entry and version 3 the first.
C1_FirstMatchingEntry ==
    \A c \in Conns :
        host[c].pc = "call" =>
            /\ host[c].call.func_name \in DOMAIN commands
            /\ LET l == commands[host[c].call.func_name]
                   v == host[c].call.api_version
                   sel == obs[c].sel
               IN /\ sel \in 1..Len(l)
                  /\ host[c].entry = l[sel]
                  /\ v.n >= l[sel].range.min_version.n \/ l[sel].range.min_version = NoneV
                  /\ v.n <= l[sel].range.max_version.n \/ l[sel].range.max_version = NoneV
                  /\ \A j \in 1..(sel - 1) :
                        \/ l[j].range.min_version # NoneV /\ v.n < l[j].range.min_version.n
                        \/ l[j].range.max_version # NoneV /\ v.n > l[j].range.max_version.n
                  /\ (/\ Len(l) >= 2
                      /\ l[1].range = VersionRange(IntV(3), NoneV)
                      /\ l[2].range = VersionRange(NoneV, IntV(2)))
                     => /\ v = IntV(2) => sel = 2
                        /\ v = IntV(3) => sel = 1
            /\ host[c].ninv <= host[c].nrecv

\* C1 witness: cmd2 requested at version 2 of a host that registered
\* MyCommands runs cmd2_old, the second entry of the list.
C1_Witness ==
    /\ host["c1"].pc = "call"
    /\ host["c1"].call.func_name = "cmd2"
    /\ host["c1"].call.api_version = IntV(2)
    /\ obs["c1"].sel = 2
    /\ host["c1"].entry.func = [cls |-> "MyCommands", name |-> "cmd2_old"]

\* A request that decodes to an ApiCall of a str name and an int version.
WellFormed(data) ==
    data.exc = "" /\ data.isCall /\ data.call.api_version.cls = "int"

\* C2: when the host receives a well-formed request whose name is not in the
\* table it writes exactly one frame, a pickled RpcNoSuchApiError; when the
\* name is in the table and no range of its list contains the version it writes
\* exactly one frame, a pickled RpcInvalidVersionError.  In both cases no
\* handler is invoked and the serve loop goes on to receive.
C2_LookupErrorsAreOutcomes ==
    [][\A c \in Conns :
        (host'[c].nrecv = host[c].nrecv + 1 /\ WellFormed(Head(c2h[c]))) =>
            LET q == Head(c2h[c]).call
                unknown == q.func_name \notin DOMAIN commands
                unsupported ==
                    /\ q.func_name \in DOMAIN commands
                    /\ \A j \in 1..Len(commands[q.func_name]) :
                          LET r == commands[q.func_name][j].range
                          IN \/ r.min_version # NoneV /\ q.api_version.n < r.min_version.n
                             \/ r.max_version # NoneV /\ q.api_version.n > r.max_version.n
            IN (unknown \/ unsupported) =>
                  /\ Len(h2c'[c]) = Len(h2c[c]) + 1
                  /\ h2c'[c][Len(h2c'[c])].exc = ""
                  /\ h2c'[c][Len(h2c'[c])].obj.cls =
                        (IF unknown THEN "RpcNoSuchApiError" ELSE "RpcInvalidVersionError")
                  /\ host'[c].ninv = host[c].ninv
                  /\ host'[c].nsent = host[c].nsent + 1
                  /\ host'[c].pc = "recv"
      ]_vars

\* C2 witness: two requests were answered, the last one with an
\* RpcInvalidVersionError, and no handler was invoked.
C2_Witness ==
    /\ host["c1"].nrecv = 2 /\ host["c1"].nsent = 2 /\ host["c1"].ninv = 0
    /\ host["c1"].pc = "recv"
    /\ obs["c1"].call.func_name = "inc_one"
    /\ obs["c1"].resp.obj.cls = "RpcInvalidVersionError"

\* C3: every evaluation of `v in VersionRange(min, max)` for an int v gives
\* True exactly when (min is absent or min <= v) and (max is absent or
\* v <= max): both absent contains every v, and VersionRange(4, 5) contains 4
\* and 5 but neither 3 nor 6.
C3_RangeContains ==
    (rangeCheck.result # "none" /\ rangeCheck.version.cls = "int") =>
        LET v == rangeCheck.version.n
            mn == rangeCheck.range.min_version
            mx == rangeCheck.range.max_version
        IN /\ rangeCheck.result \in {"True", "False"}
           /\ rangeCheck.result = "True" <=>
                 ((mn = NoneV \/ mn.n <= v) /\ (mx = NoneV \/ v <= mx.n))
           /\ (mn = NoneV /\ mx = NoneV) => rangeCheck.result = "True"
           /\ (mn = IntV(4) /\ mx = IntV(5)) =>
                 (rangeCheck.result = "True" <=> v \in {4, 5})

\* C3 witness: 5 in VersionRange(4, 5) was evaluated, to True.
C3_Witness ==
    /\ rangeCheck.range = VersionRange(IntV(4), IntV(5))
    /\ rangeCheck.version = IntV(5)
    /\ rangeCheck.result = "True"

\* The handler that was selected for the request raised.
HandlerRaised(c) == obs[c].sel > 0 /\ obs[c].out.kind = "raise"

StubMarking(c, name) == MethodOf(client[c].stubs[name].func)

\* The range of a marking excludes the api version v.
Excludes(range, v) ==
    \/ range.min_version # NoneV /\ v.n < range.min_version.n
    \/ range.max_version # NoneV /\ v.n > range.max_version.n

\* An invocation of the attribute that instrument_client_commands set.
InvokesStub(c) ==
    /\ client'[c].ncalls = client[c].ncalls + 1
    /\ obs'[c].method \in DOMAIN client[c].stubs

\* C5: every invocation of a stub that was built from a marking whose range
\* does not contain the api version of the instrumentation raises
\* RpcApiVersionMismatchError, and the numbers of frames sent and received on
\* the connection, and the frames in flight, are what they were before it.
C5_OutOfRangeStubRaises ==
    [][\A c \in Conns :
        (InvokesStub(c)
           /\ Excludes(StubMarking(c, obs'[c].method).range, client[c].api_version)) =>
            /\ obs'[c].result.kind = "raise"
            /\ obs'[c].result.val.cls = "RpcApiVersionMismatchError"
            /\ client'[c].nsent = client[c].nsent
            /\ client'[c].nrecvd = client[c].nrecvd
            /\ client'[c].pc = "idle"
            /\ c2h' = c2h /\ h2c' = h2c
      ]_vars

\* C5 witness: inc_one (min_version 3) was invoked twice on a MyCommands
\* instrumented with version 2; it raised and no frame was sent.
C5_Witness ==
    /\ client["c1"].cls = "MyCommands" /\ client["c1"].api_version = IntV(2)
    /\ obs["c1"].method = "inc_one"
    /\ obs["c1"].result.val.cls = "RpcApiVersionMismatchError"
    /\ client["c1"].ncalls = 2 /\ client["c1"].nsent = 0 /\ client["c1"].nrecvd = 0

\* C6: an invocation, with arguments A, of a stub that was built from a marking
\* whose range contains the api version v sends exactly one frame, the pickled
\* ApiCall of the exposed name (the func_name of the marking when it has one,
\* not the name on the class), of v and of A, and then waits; the response
\* frame is the one frame it receives, it sends nothing more, and when the
\* payload decodes to a value that is no exception it returns that value.
C6_InRangeStubSendsOneRequest ==
    [][\A c \in Conns :
        /\ (InvokesStub(c)
              /\ ~Excludes(StubMarking(c, obs'[c].method).range, client[c].api_version)) =>
              LET m == StubMarking(c, obs'[c].method)
                  exposed == IF m.api_name = NoneV THEN m.name ELSE m.api_name.s
                  frame == [exc |-> "", isCall |-> TRUE, obj |-> NoneV,
                            call |-> [func_name |-> exposed,
                                      api_version |-> client[c].api_version,
                                      args |-> obs'[c].args, kwargs |-> obs'[c].kwargs]]
              IN /\ Len(c2h'[c]) = Len(c2h[c]) + 1
                 /\ \A f \in DOMAIN frame : c2h'[c][Len(c2h'[c])][f] = frame[f]
                 /\ client'[c].nsent = client[c].nsent + 1
                 /\ client'[c].nrecvd = client[c].nrecvd
                 /\ client'[c].pc = "waiting"
                 /\ h2c' = h2c
        /\ (client'[c].nrecvd = client[c].nrecvd + 1) =>
              LET d == Head(h2c[c])
              IN /\ h2c'[c] = Tail(h2c[c])
                 /\ c2h' = c2h
                 /\ client'[c].nsent = client[c].nsent
                 /\ client'[c].pc = "idle"
                 /\ (d.exc = "" /\ ~d.isCall /\ d.obj.cls \in {"int", "str", "NoneType"}) =>
                       obs'[c].result = [kind |-> "return", val |-> d.obj]
      ]_vars

\* C6 witness: cmd2_old, exposed as cmd2, was invoked on a MyCommands
\* instrumented with version 2; one frame naming cmd2 went out and the stub
\* returned the 42 of the response.
C6_Witness ==
    /\ client["c1"].cls = "MyCommands" /\ client["c1"].api_version = IntV(2)
    /\ obs["c1"].method = "cmd2_old"
    /\ obs["c1"].req.call.func_name = "cmd2"
    /\ obs["c1"].req.call.args = <<3>>
    /\ obs["c1"].result = [kind |-> "return", val |-> IntV(42)]
    /\ client["c1"].ncalls = 1 /\ client["c1"].nsent = 1 /\ client["c1"].nrecvd = 1

\* C7: after instrument_client_commands(obj) has returned, for every type
\* hierarchy, invoking a method of obj that carries no marking runs the
\* method's own body locally: no frame is sent and the result is the body's.
C7_UnmarkedMethodsUntouched ==
    \A c \in Conns :
        (client[c].err = "ok" /\ obs[c].method # ""
           /\ ~MethodOf(Resolve(MRO(client[c].cls), 1, obs[c].method)).marked) =>
            /\ obs[c].stub = "local"
            /\ obs[c].req = NoPayload
            /\ c2h[c] = << >>

\* A payload that pickle.loads rejects or that is no pickled ApiCall.
Undecodable(data) == data.exc # "" \/ ~data.isCall

C9_OneResponsePerRequest ==
    \A c \in Conns :
        (obs[c].call # NoCall /\ host[c].pc # "call") =>
            /\ obs[c].handled = "sent"
            /\ obs[c].resp # NoPayload
            /\ host[c].nsent = host[c].nrecv

\* C10: when a handler has returned a value that pickle cannot serialize, the
\* host has written a response frame that carries an RpcSerializationError,
\* and nothing was raised into the serve loop.
C10_UnserializableValueAnswered ==
    \A c \in Conns :
        (obs[c].sel > 0 /\ obs[c].out.kind = "return"
           /\ obs[c].out.val.cls \in {"LocalClass", "function", "lock"}) =>
            /\ obs[c].handled = "sent"
            /\ obs[c].resp.obj.cls = "RpcSerializationError"
            /\ host[c].pc = "recv"

\* The value of an 8-byte big-endian header, given as its list of bytes, is k.
HeaderIs(h, k) ==
    /\ Len(h) = 8
    /\ \A i \in 1..5 : h[i] = 0
    /\ h[6] * 65536 + h[7] * 256 + h[8] = k

\* The value of an 8-byte big-endian header is over the ceiling.
HeaderOver(h) ==
    /\ Len(h) = 8
    /\ \/ \E i \in 1..5 : h[i] # 0
       \/ h[6] * 65536 + h[7] * 256 + h[8] > 10 * 1024 * 1024

\* C12: send_message with a payload longer than MAX_MSG_SIZE raises
\* RpcMaxSizeExceededError and leaves the stream as it was; with a payload of
\* at most MAX_MSG_SIZE bytes (exactly MAX_MSG_SIZE and 0 included) it makes one
\* write, of the 8-byte big-endian length followed by the payload bytes.
C12_SendWritesOneFrameOrNothing ==
    [][(wire'.nsend = wire.nsend + 1) =>
        LET data == wire'.last
            written == Drop(wire'.buf, BLen(wire.buf))
        IN /\ Take(wire'.buf, BLen(wire.buf)) = wire.buf
           /\ IF BLen(data) > 10 * 1024 * 1024
              THEN /\ wire'.wres = "RpcMaxSizeExceededError"
                   /\ wire'.buf = wire.buf
                   /\ wire'.nwrites = wire.nwrites
              ELSE /\ wire'.wres = "ok"
                   /\ wire'.nwrites = wire.nwrites + 1
                   /\ BLen(written) = 8 + BLen(data)
                   /\ HeaderIs(Expand(Take(written, 8)), BLen(data))
                   /\ Drop(written, 8) = data
      ]_vars

\* C12 witness: b"A" * MAX_MSG_SIZE was sent on an empty stream, which now
\* holds 00 00 00 00 00 a0 00 00 and the payload; an empty payload and one of
\* MAX_MSG_SIZE + 1 bytes were handed to send_message before.
C12_Witness ==
    /\ wire.nsend = 3 /\ wire.nwrites = 2 /\ wire.wres = "ok"
    /\ wire.last = Rep(65, MAX_MSG_SIZE)
    /\ wire.sent = << << >>, Rep(65, MAX_MSG_SIZE) >>
    /\ wire.buf = <<[b |-> 0, n |-> 5], [b |-> 160, n |-> 1], [b |-> 0, n |-> 2],
                    [b |-> 65, n |-> MAX_MSG_SIZE]>>

\* C13: a recv_message that decodes a length header over MAX_MSG_SIZE raises
\* RpcMaxSizeExceededError having taken the 8 header bytes off the stream and
\* nothing else; a header equal to MAX_MSG_SIZE is accepted, and the payload
\* of MAX_MSG_SIZE bytes that follows it is returned whole.
C13_RecvChecksHeader ==
    [][/\ (wire.pc = "header" /\ wire'.pc # "header" /\ BLen(wire.buf) >= 8) =>
            LET h == Expand(Take(wire.buf, 8))
            IN /\ HeaderOver(h) =>
                     /\ wire'.pc = "raised"
                     /\ wire'.err = "RpcMaxSizeExceededError"
                     /\ wire'.buf = Drop(wire.buf, 8)
                     /\ wire'.got = wire.got
               /\ HeaderIs(h, 10 * 1024 * 1024) =>
                     /\ wire'.pc = "payload"
                     /\ wire'.need = 10 * 1024 * 1024
                     /\ wire'.buf = Drop(wire.buf, 8)
       /\ (wire.pc = "payload" /\ wire'.pc # "payload"
             /\ wire.need = 10 * 1024 * 1024 /\ BLen(wire.buf) >= wire.need) =>
            /\ wire'.pc = "header"
            /\ wire'.got = Append(wire.got, Take(wire.buf, 10 * 1024 * 1024))
            /\ BLen(wire'.got[Len(wire'.got)]) = 10 * 1024 * 1024
            /\ wire'.buf = Drop(wire.buf, 10 * 1024 * 1024)
      ]_vars

\* C13 witness: a payload of MAX_MSG_SIZE bytes was received, and then a header
\* of MAX_MSG_SIZE + 1 was refused with the 3 bytes after it still unread.
C13_Witness ==
    /\ wire.got = << Rep(65, MAX_MSG_SIZE) >>
    /\ wire.pc = "raised" /\ wire.err = "RpcMaxSizeExceededError"
    /\ wire.buf = Rep(65, 3)

\* C14: on a stream that only send_message writes to, the payloads that
\* successive recv_message calls have returned are, byte for byte and in
\* order, the first of the payloads sent; recv_message raises only at the end
\* of the stream, at a frame boundary, and then all of them were returned.
C14_FrameRoundTrip ==
    ~wire.raw =>
        /\ Len(wire.got) <= Len(wire.sent)
        /\ \A i \in 1..Len(wire.got) : wire.got[i] = wire.sent[i]
        /\ wire.pc = "raised" =>
              /\ wire.eof
              /\ wire.err = "IncompleteReadError" /\ wire.partial = 0
              /\ wire.got = wire.sent
        /\ (wire.pc = "header" /\ wire.buf = << >>) => wire.got = wire.sent

\* C14 witness: payloads of length 0, 1 and MAX_MSG_SIZE were sent and
\* received in that order.
C14_Witness ==
    /\ ~wire.raw
    /\ wire.sent = << << >>, Rep(1, 1), Cat(Rep(0, 9), Rep(65, MAX_MSG_SIZE - 9)) >>
    /\ wire.got = wire.sent
    /\ wire.buf = << >>

\* Packing or sending the outcome out fails, and so does reporting that: pickle
\* has no reduction for it (a lock), the RpcSerializationError made for it
\* cannot be pickled either, or its pickle is over the size ceiling.
OutcomeCannotBeSent(out) ==
    \/ out.cls \in {"lock", "LockError", "BadReduce"}
    \/ out.cls = "bytes" /\ out.n >= 10 * 1024 * 1024

\* C11: when packing or sending the outcome of a call failed on the host and
\* reporting that failure as an error outcome failed as well, the host has
\* written one response frame for the request all the same, which carries a
\* fixed RpcInternalError, and the serve loop is receiving again.
C11_FallbackInternalError ==
    \A c \in Conns :
        (obs[c].out.kind # "none" /\ OutcomeCannotBeSent(obs[c].out.val)) =>
            /\ obs[c].handled = "sent"
            /\ obs[c].resp.obj.cls = "RpcInternalError"
            /\ host[c].nsent = host[c].nrecv
            /\ host[c].pc = "recv"

\* The loop of accept_connection meets the end of the stream.
MeetsEnd(c) ==
    /\ host[c].pc = "recv" /\ host'[c].pc # "recv"
    /\ tail[c].closed /\ c2h[c] = << >>

\* C15: when the peer has closed the stream at a frame boundary, with no byte
\* of a next header on it, accept_connection ends its loop and returns without
\* raising and without writing anything, however many requests it served before.
C15_NormalCloseReturns ==
    [][\A c \in Conns :
        (MeetsEnd(c) /\ tail[c].left = << >>) =>
            /\ host'[c].pc = "closed"
            /\ host'[c].err = NoneV
            /\ host'[c].nsent = host[c].nsent /\ host'[c].nrecv = host[c].nrecv
            /\ h2c' = h2c
      ]_vars

\* C15 witness: the loop has returned after two requests served and answered.
C15_Witness ==
    /\ host["c1"].pc = "closed" /\ host["c1"].err = NoneV
    /\ host["c1"].nrecv = 2 /\ host["c1"].nsent = 2
    /\ tail["c1"].closed /\ tail["c1"].left = << >>

\* C16: when the stream ends after 1 to 7 bytes of a header, after a whole
\* header but before all of the payload it announces (whether some of it or
\* none was read), or the header is over the ceiling, accept_connection ends
\* by raising: it never returns as for a normal close, and no response frame
\* is written for the broken frame.
C16_FramingFailureIsFatal ==
    [][\A c \in Conns :
        (MeetsEnd(c) /\ tail[c].left # << >>) =>
            /\ host'[c].pc = "raised"
            /\ host'[c].err.cls \in {"IncompleteReadError", "RpcMaxSizeExceededError"}
            /\ host'[c].nsent = host[c].nsent
            /\ h2c' = h2c
      ]_vars

\* C17: on one connection the host reads a request only when it is at the top
\* of its loop with every request read before answered, and it reads the
\* requests in the order they were written; it starts a handler only when none
\* is in progress; each response it writes goes to the end of the stream and
\* answers the request it read last, so that the k-th response answers the
\* k-th request (inc_one(i) is answered with i + 1).
C17_StrictRequestResponse ==
    [][\A c \in Conns :
        /\ (host'[c].nrecv = host[c].nrecv + 1) =>
              /\ host[c].pc = "recv"
              /\ host[c].nsent = host[c].nrecv
              /\ Len(obs[c].answers) = host[c].nrecv
              /\ Head(c2h[c]) = obs[c].reqs[host[c].nrecv + 1]
        /\ (host'[c].ninv = host[c].ninv + 1) => host[c].pc # "call"
        /\ host'[c].ninv <= host[c].ninv + 1
        /\ (obs'[c].answers # obs[c].answers) =>
              LET a == obs'[c].answers[Len(obs'[c].answers)]
              IN /\ obs'[c].answers = Append(obs[c].answers, a)
                 /\ a.k = Len(obs'[c].answers) /\ a.k = host'[c].nrecv
                 /\ h2c'[c] = Append(h2c[c], a.resp)
                 /\ LET q == obs[c].reqs[a.k]
                    IN (q.isCall /\ q.call.func_name = "inc_one"
                          /\ a.resp.obj.cls = "int") =>
                            a.resp.obj.n = q.call.args[1] + 1
        /\ h2c'[c] # h2c[c] =>
              \/ obs'[c].answers # obs[c].answers
              \/ h2c'[c] = Tail(h2c[c])
      ]_vars

\* C17 witness: two requests were written before the host read any; the
\* handler of the first is running and the second lies unread.
C17_Witness ==
    /\ Len(obs["c1"].reqs) = 2
    /\ host["c1"].pc = "call" /\ host["c1"].nrecv = 1 /\ host["c1"].nsent = 0
    /\ host["c1"].call.func_name = "inc_one"
    /\ c2h["c1"] = <<obs["c1"].reqs[2]>>
    /\ obs["c1"].reqs[2].call.args = <<3>>

\* The kinds of outcome that report the failure of one call.
PerCallErrors ==
    { "TypeError", "RuntimeError", "RpcNoSuchApiError", "RpcInvalidVersionError",
      "RpcSerializationError" }

\* The response the host wrote last on connection c reports a per-call failure.
LastAnswerIsError(c) ==
    /\ obs[c].answers # << >>
    /\ obs[c].answers[Len(obs[c].answers)].resp.obj.cls \in PerCallErrors

\* C19: when the host has answered a request with an error outcome (an
\* exception of the handler, RpcNoSuchApiError, RpcInvalidVersionError or
\* RpcSerializationError), its serve loop is receiving again with nothing
\* raised; the next well-formed request on the connection is read, it is
\* dispatched to the first matching entry, and its answer is the one it would
\* get on a fresh connection (inc_one(i) is answered with i + 1).
C19_ConnectionSurvivesCallFailure ==
    [][\A c \in Conns :
        /\ (obs'[c].answers # obs[c].answers /\ LastAnswerIsError(c)') =>
              host'[c].pc = "recv" /\ host'[c].err = NoneV
        /\ (LastAnswerIsError(c) /\ host[c].pc = "recv" /\ c2h[c] # << >>
              /\ host'[c] # host[c]) =>
              LET q == Head(c2h[c])
              IN /\ host'[c].nrecv = host[c].nrecv + 1
                 /\ (q.isCall /\ q.call = ApiCall("inc_one", IntV(3), <<1>>, {})
                       /\ "inc_one" \in DOMAIN commands) =>
                          /\ host'[c].pc = "call"
                          /\ host'[c].entry = commands["inc_one"][1]
        /\ (LastAnswerIsError(c) /\ obs'[c].answers # obs[c].answers) =>
              LET a == obs'[c].answers[Len(obs'[c].answers)]
                  q == obs[c].reqs[a.k]
              IN (q.isCall /\ q.call.func_name = "inc_one" /\ q.call.api_version = IntV(3)
                    /\ Len(q.call.args) = 1 /\ "inc_one" \in DOMAIN commands) =>
                       a.resp.obj = IntV(q.call.args[1] + 1)
      ]_vars

\* C19 witness: the first request was answered with RpcNoSuchApiError and the
\* second, inc_one(1), with 2.
C19_Witness ==
    /\ Len(obs["c1"].answers) = 2
    /\ obs["c1"].answers[1].resp.obj.cls = "RpcNoSuchApiError"
    /\ obs["c1"].reqs[2].call = ApiCall("inc_one", IntV(3), <<1>>, {})
    /\ obs["c1"].answers[2].resp.obj = IntV(2)
    /\ host["c1"].pc = "recv"

\* The serve loop of connection c takes a step.
LoopSteps(c) == host'[c] # host[c]

\* One connection's serve loop does not touch another's: a step of the loop of
\* c leaves the loop, the streams and the call of every other connection as
\* they are, and leaves the endpoint table as it is.
NoInterference(c) ==
    LoopSteps(c) =>
        /\ \A d \in Conns \ {c} :
              /\ host'[d] = host[d]
              /\ c2h'[d] = c2h[d] /\ h2c'[d] = h2c[d]
              /\ obs'[d] = obs[d] /\ tail'[d] = tail[d]
        /\ commands' = commands

\* The serve loop of c can go on: take the request on its stream, or answer
\* when its handler returns.
CanProceed(c) ==
    /\ (host[c].pc = "recv" /\ c2h[c] # << >>) => ENABLED HostReceive(c)
    /\ (host[c].pc = "call" /\ ~Hangs(host[c].entry.func)
          /\ ~Spins(host[c].entry.func)) => ENABLED HostReturn(c)

C20_DispatchReadOnly ==
    [][/\ regs' = regs => commands' = commands
       /\ \A c, d \in Conns :
            (/\ obs'[c].call # NoCall /\ obs'[d].call # NoCall
             /\ obs'[c].call.func_name = obs'[d].call.func_name
             /\ obs'[c].call.api_version = obs'[d].call.api_version
             /\ obs'[c].epoch = obs'[d].epoch) =>
                /\ obs'[c].sel = obs'[d].sel
                /\ obs'[c].entry = obs'[d].entry
                /\ obs'[c].sel = 0 => obs'[c].out.val.cls = obs'[d].out.val.cls
      ]_vars

\* C20 witness: both connections asked for inc_one at version 3 under the same
\* table and both were given its first entry.
C20_Witness ==
    /\ obs["c1"].call = ApiCall("inc_one", IntV(3), <<1>>, {})
    /\ obs["c2"].call = obs["c1"].call
    /\ obs["c1"].epoch = obs["c2"].epoch
    /\ obs["c1"].sel = 1 /\ obs["c2"].sel = 1
    /\ obs["c1"].entry = commands["inc_one"][1]
    /\ host["c1"].pc = "call" /\ host["c2"].pc = "call"

\* No method of the type of k or of its ancestor types carries the marking.
NoMarkedMethods(k) ==
    \A i \in 1..Len(MRO(k)) :
        \A j \in 1..Len(ClassDict(MRO(k)[i])) : ~ClassDict(MRO(k)[i])[j].marked

\* C21: register_commands on an object none of whose methods carries the
\* marking raises RpcDecoratorError("No decorated functions found") to its
\* caller and leaves the endpoint table as it was, whatever the table holds;
\* and a register_commands call that ended with this error has changed neither
\* the table nor any stream.
C21_EmptyRegistrationRejected ==
    [][/\ \A k \in Classes :
            NoMarkedMethods(k) =>
                LET r == register_commands(commands, [cls |-> k, id |-> regs + 1])
                IN r.err = "No decorated functions found" /\ r.commands = commands
       /\ (regs' # regs /\ regResult' = "No decorated functions found") =>
            /\ commands' = commands
            /\ c2h' = c2h /\ h2c' = h2c /\ host' = host
      ]_vars

\* C21 witness: the second register_commands call was given an object without
\* marked methods and raised; the table holds what the first call put there.
C21_Witness ==
    /\ regs = 2
    /\ regResult = "No decorated functions found"
    /\ DOMAIN commands = {"inc_one", "cmd2", "cmd4", "unserializable"}
    /\ Len(commands["cmd2"]) = 2

\* A method of the type of k or of one of its ancestor types carries the
\* marking and is not an async function or has marking data that is no
\* ApiFunctionSpec.
HasInvalidMarking(k) ==
    \E i \in 1..Len(MRO(k)) :
        \E j \in 1..Len(ClassDict(MRO(k)[i])) :
            LET m == ClassDict(MRO(k)[i])[j]
            IN m.marked /\ (~m.is_async \/ ~m.spec_ok)

DecoratorErrors == {"Not an async function", "Decorator malfunction"}

\* C22: for an object with an invalid marking on a method of its type or of
\* an ancestor type, register_commands and instrument_client_commands both end
\* with the RpcDecoratorError of discovery, whatever the table holds and
\* whatever the api version; the error goes to the caller and nothing is
\* written to any stream.
C22_InvalidMarkingFailsDiscovery ==
    [][/\ \A k \in DiscoverClasses :
            HasInvalidMarking(k) =>
                /\ register_commands(commands, [cls |-> k, id |-> regs + 1]).err
                      \in DecoratorErrors
                /\ \A v \in InstrVersions :
                      instrument_client_commands(v, k).err \in DecoratorErrors
       /\ \A c \in Conns :
            (client'[c].cls # "" /\ HasInvalidMarking(client'[c].cls)) =>
                client'[c].err \in DecoratorErrors
       /\ ((regs' # regs /\ regResult' \in DecoratorErrors)
             \/ (\E c \in Conns : client'[c] # client[c]
                                   /\ client'[c].err \in DecoratorErrors)) =>
            c2h' = c2h /\ h2c' = h2c
      ]_vars

\* C22 witness: register_commands was given an object whose base type has a
\* marked method that is not async, overridden without a marking in the
\* subtype, and raised; instrument_client_commands was given an object with
\* marking data of the wrong type, and raised.
C22_Witness ==
    /\ regs = 1 /\ regResult = "Not an async function"
    /\ DOMAIN commands = {"fresh"}
    /\ client["c1"].cls = "MyTestCommands"
    /\ client["c1"].err = "Decorator malfunction"
    /\ client["c2"].cls = "DerivedSync"
    /\ client["c2"].err = "Not an async function"

\* shutdown_after_call has been invoked.
ShutDown == ~legacy.keep_serve_loop_running

\* host_forever has returned.
Returned == legacy.pc = "returned"

\* The handler of the call in progress never returns.
LegacyStuck == legacy.pc = "call" /\ Hangs(legacy.entry.func)

\* A call in progress when the flag is down is finished, answered, and
\* host_forever returns after it.
CallInProgressIsFinished ==
    (ShutDown /\ legacy.pc = "call" /\ legacy'.pc # "call") =>
        /\ legacy'.nsent = legacy.nsent + 1
        /\ Len(legacy'.outbox) = Len(legacy.outbox) + 1
        /\ legacy'.pc = "returned"

\* Once it has returned, host_forever receives and sends nothing.
ReturnedIsFinal ==
    Returned =>
        /\ legacy'.pc = "returned"
        /\ legacy'.nrecv = legacy.nrecv /\ legacy'.nsent = legacy.nsent
        /\ legacy'.outbox = legacy.outbox

\* C23 as stated: once shutdown_after_call has been invoked, a call in
\* progress is finished and answered, no request is received any more, and
\* host_forever returns (unless the handler in progress never returns).
C23_GracefulShutdown ==
    /\ [][/\ CallInProgressIsFinished
          /\ ReturnedIsFinal
          /\ ShutDown => legacy'.nrecv = legacy.nrecv]_vars
    /\ (ShutDown /\ ~LegacyStuck) ~> (Returned \/ LegacyStuck)

\* C23, amended: the flag is looked at only when _host_one has returned.  A
\* call in progress when shutdown_after_call is invoked is finished and
\* answered, and host_forever returns after it without receiving again.  A
\* loop that is waiting for a request when shutdown_after_call is invoked
\* stays waiting: it receives the next request, the only one it receives after
\* the invocation, answers it and returns after it; until a request arrives
\* host_forever does not return.  Invoked before host_forever is called, it
\* makes host_forever return at once.
C23_ShutdownAfterNextCall ==
    /\ [][/\ CallInProgressIsFinished
          /\ ReturnedIsFinal
          /\ (ShutDown /\ legacy'.nrecv # legacy.nrecv) =>
                /\ legacy.pc = "recv" /\ legacy.shutPc = "recv"
                /\ legacy.nrecv = legacy.shutAt
                /\ legacy'.nrecv = legacy.nrecv + 1
                /\ \/ legacy'.pc = "call"
                   \/ legacy'.pc = "returned" /\ legacy'.nsent = legacy.nsent + 1
          /\ (ShutDown /\ legacy.pc = "recv" /\ legacy.inbox = << >>
                /\ legacy'.inbox = << >>) => legacy'.pc = "recv"]_vars
    /\ [](ShutDown =>
            /\ legacy.nrecv <= legacy.shutAt + 1
            /\ legacy.shutPc \in {"init", "call"} => legacy.nrecv = legacy.shutAt)
    /\ (ShutDown /\ legacy.pc = "init") ~> Returned
    /\ (ShutDown /\ legacy.pc = "call" /\ ~LegacyStuck) ~> Returned
    /\ (ShutDown /\ legacy.pc = "recv" /\ legacy.inbox # << >>)
          ~> (Returned \/ LegacyStuck)

\* C23 witness: shutdown_after_call was invoked while the handler of the first
\* request ran; the response of that call was sent, host_forever has returned,
\* and the request the peer sent after it lies unread.
C23_Witness ==
    /\ ShutDown /\ Returned
    /\ legacy.shutPc = "call" /\ legacy.shutAt = 1
    /\ legacy.nrecv = 1 /\ legacy.nsent = 1
    /\ legacy.outbox = <<IntV(2)>>
    /\ legacy.nreq = 2 /\ legacy.inbox # << >>

\* C24: whenever a stub has been given a response payload that pickle.loads
\* rejects (bytes that are no pickle, no bytes at all, a truncated pickle), the
\* stub has raised RpcProtocolError to its caller, and it has sent one request
\* frame and no more.
C24_BadResponseIsProtocolError ==
    \A c \in Conns :
        (obs[c].stub = "call" /\ obs[c].resp # NoPayload /\ obs[c].resp.exc # ""
           /\ obs[c].result # NoOutcome) =>
            /\ obs[c].result.kind = "raise"
            /\ obs[c].result.val.cls = "RpcProtocolError"
            /\ client[c].nsent = client[c].nrecvd

\* What the host handler resolved for (exposed name of the method, v) produces
\* for the arguments, on a host where one object of type k was registered.
HostOutcome(k, name, v, args, kwargs) ==
    LET m == MethodOf(Resolve(MRO(k), 1, name))
        cmds == register_commands(<< >>, [cls |-> k, id |-> 1]).commands
        call == ApiCall(ExposedName(m), v, args, kwargs)
        d == _call_command(cmds, call)
    IN IF d.sel = 0 THEN [kind |-> "raise", val |-> d.raised]
       ELSE LET r == Invoke(cmds[call.func_name][d.sel].func, args, kwargs, TRUE)
            IN [kind |-> IF r.raised THEN "raise" ELSE "return", val |-> r.val]

\* C25: with one object of a type registered on the host and one instrumented
\* on the client at version v, invoking a marked method of the client object
\* whose range contains v sends a call, the host answers it, and the stub
\* returns the value or raises the error that the host handler resolved for
\* (exposed name, v) produces for the arguments; invoking one whose range
\* excludes v raises RpcApiVersionMismatchError locally.
C25_EndToEndTransparency ==
    \A c \in Conns :
        LET k == client[c].cls
            v == client[c].api_version
        IN (/\ k # "" /\ client[c].err = "ok"
            /\ regs = 1 /\ regResult = "ok"
            /\ commands = register_commands(<< >>, [cls |-> k, id |-> 1]).commands
            /\ obs[c].method # ""
            /\ MethodOf(Resolve(MRO(k), 1, obs[c].method)).marked) =>
              IF Contains(v, MethodOf(Resolve(MRO(k), 1, obs[c].method)).range)
              THEN /\ obs[c].stub = "call"
                   /\ (obs[c].call # NoCall /\ obs[c].epoch = 1) =>
                         /\ host[c].pc # "raised"
                         /\ obs[c].result # NoOutcome =>
                               obs[c].result = HostOutcome(k, obs[c].method, v,
                                                           obs[c].args, obs[c].kwargs)
              ELSE /\ obs[c].stub = "throw"
                   /\ obs[c].result.kind = "raise"
                   /\ obs[c].result.val.cls = "RpcApiVersionMismatchError"

\* C26: the host invokes a handler only in the step that takes a request
\* frame, one handler for one frame, and the client writes a request frame only
\* in the step that starts a stub invocation, one frame for one invocation;
\* whatever the outcome of a call, nothing is sent or invoked again for it.
C26_NoRetries ==
    [][\A c \in Conns :
        /\ host'[c].ninv <= host[c].ninv + 1
        /\ host'[c].ninv # host[c].ninv => host'[c].nrecv = host[c].nrecv + 1
        /\ host'[c].ninv <= host'[c].nrecv
        /\ client'[c].nsent <= client[c].nsent + 1
        /\ Len(c2h'[c]) <= Len(c2h[c]) + 1
        /\ (client'[c].nsent # client[c].nsent \/ Len(c2h'[c]) > Len(c2h[c])) =>
              client'[c].ncalls = client[c].ncalls + 1
        /\ client'[c].nsent <= client'[c].ncalls
      ]_vars

\* C26 witness: two stub invocations were made on handlers that raise or
\* return what cannot go back as a value; the host took the first request and
\* invoked its handler once, the second was answered with bytes that are no
\* pickle and the stub raised; two request frames were sent in all and nothing
\* is on its way.
C26_Witness ==
    /\ client["c1"].ncalls = 2 /\ client["c1"].nsent = 2 /\ client["c1"].pc = "idle"
    /\ host["c1"].nrecv = 1 /\ host["c1"].ninv = 1 /\ host["c1"].nsent = 1
    /\ obs["c1"].result.kind = "raise"
    /\ obs["c1"].result.val.cls = "RpcProtocolError"
    /\ DOMAIN commands = {"raise_app", "raise_local", "raise_lock", "raise_ctor",
                          "ret_exc", "ret_lock", "ret_badreduce", "ret_huge", "hang",
                          "spin"}
    /\ c2h["c1"] = << >> /\ h2c["c1"] = << >>

\* Where the type that declares the function of entry e stands in the
\* method-resolution order of the object it was registered with, and where
\* the function stands in the declarations of that type.
MroPos(e) == CHOOSE i \in 1..Len(MRO(e.obj.cls)) : MRO(e.obj.cls)[i] = e.func.cls

DeclPos(e) ==
    CHOOSE j \in 1..Len(ClassDict(e.func.cls)) :
        ClassDict(e.func.cls)[j].name = e.func.name

\* Entry e1 was discovered before entry e2: by an earlier register_commands
\* call, or by the same call in a type nearer to the object's own, or in the
\* same type in an earlier declaration.
DiscoveredBefore(e1, e2) ==
    \/ e1.obj.id < e2.obj.id
    \/ /\ e1.obj.id = e2.obj.id
       /\ \/ MroPos(e1) < MroPos(e2)
          \/ MroPos(e1) = MroPos(e2) /\ DeclPos(e1) < DeclPos(e2)

\* The marked methods of the types of object o.
MarkedOf(o) ==
    UNION { { [cls |-> MRO(o.cls)[i], name |-> ClassDict(MRO(o.cls)[i])[j].name] :
                j \in { n \in 1..Len(ClassDict(MRO(o.cls)[i])) :
                           ClassDict(MRO(o.cls)[i])[n].marked } } :
            i \in 1..Len(MRO(o.cls)) }

\* C27: every list of the endpoint table is in discovery order (the object's
\* own type before its ancestor types in method-resolution order, declaration
\* order within a type, earlier register_commands calls first); every entry is
\* under the exposed name of its method (the marking's func_name, or the
\* method's own name); every marked method of a registered object has its
\* entry; and the entry dispatch selects is the earliest discovered one among
\* those of the name whose range contains the version.
C27_DiscoveryOrderWins ==
    [][/\ \A f \in DOMAIN commands' :
            LET l == commands'[f]
            IN /\ \A i, j \in 1..Len(l) : i < j => DiscoveredBefore(l[i], l[j])
               /\ \A i \in 1..Len(l) :
                     /\ f = ExposedName(MethodOf(l[i].func))
                     /\ l[i].range = MethodOf(l[i].func).range
                     /\ \A g \in MarkedOf(l[i].obj) :
                           \E n \in 1..Len(commands'[ExposedName(MethodOf(g))]) :
                               LET e == commands'[ExposedName(MethodOf(g))][n]
                               IN e.func = g /\ e.obj = l[i].obj
       /\ \A c \in Conns :
            (host'[c].pc = "call" /\ host'[c].nrecv = host[c].nrecv + 1) =>
                LET q == host'[c].call
                    l == commands[q.func_name]
                IN /\ \E i \in 1..Len(l) : l[i] = host'[c].entry
                   /\ Contains(q.api_version, host'[c].entry.range)
                   /\ \A i \in 1..Len(l) :
                         (Contains(q.api_version, l[i].range) /\ l[i] # host'[c].entry) =>
                             DiscoveredBefore(host'[c].entry, l[i])
      ]_vars

\* C27 witness: an object whose own type declares m for versions from 2 on
\* and m_alt under the exposed name m for versions up to 3, and whose base
\* type declares m for every version, was registered; the list of m holds the
\* three in this order, and a request for m at version 3, which all three
\* ranges contain, is served by the first.
C27_Witness ==
    /\ "m" \in DOMAIN commands
    /\ Len(commands["m"]) = 3
    /\ commands["m"][1].func = [cls |-> "Overlap", name |-> "m"]
    /\ commands["m"][2].func = [cls |-> "Overlap", name |-> "m_alt"]
    /\ commands["m"][3].func = [cls |-> "OverlapBase", name |-> "m"]
    /\ host["c1"].pc = "call"
    /\ host["c1"].call = ApiCall("m", IntV(3), << >>, {})
    /\ host["c1"].entry = commands["m"][1]

\* C28: once the host has taken a payload that pickle.loads rejects (no bytes
\* at all included) or that is the pickle of something other than an ApiCall,
\* RpcProtocolError, and no other error, has been raised out of
\* _handle_one_command, and no handler was selected or invoked for it.
C28_BadRequestIsProtocolError ==
    \A c \in Conns :
        (Undecodable(obs[c].req) /\ obs[c].req # NoPayload /\ obs[c].handled # "none") =>
            /\ host[c].pc = "raised"
            /\ host[c].err.cls = "RpcProtocolError"
            /\ obs[c].sel = 0 /\ obs[c].entry = NoEntry
            /\ obs[c].handled = "raised"

\* C29: for every response that pickle.loads turns into an object, the stub
\* raises that object if it is an instance of Exception and returns it
\* otherwise; there is no other mark of an error.  So when a handler has
\* returned an exception object as its value and the host has sent it, the
\* caller of the stub sees this exception raised.
C29_ErrorIsAnyExceptionInstance ==
    \A c \in Conns :
        (obs[c].stub = "call" /\ obs[c].result # NoOutcome /\ obs[c].resp # NoPayload
           /\ obs[c].resp.exc = "" /\ ~obs[c].resp.isCall) =>
            /\ obs[c].result.val = obs[c].resp.obj
            /\ obs[c].result.kind = "raise" <=> IsException(obs[c].resp.obj)
            /\ (obs[c].out.kind = "return" /\ obs[c].handled = "sent"
                  /\ obs[c].resp = Pickled(obs[c].out.val)
                  /\ IsException(obs[c].out.val)) =>
                    obs[c].result = [kind |-> "raise", val |-> obs[c].out.val]

\* C29 witness: the handler ret_exc returned a RuntimeError object, the host
\* sent it as the response, and the stub raised it.
C29_Witness ==
    /\ obs["c1"].method = "ret_exc"
    /\ obs["c1"].out = [kind |-> "return", val |-> ExcV("RuntimeError", "returned")]
    /\ obs["c1"].handled = "sent"
    /\ obs["c1"].result = [kind |-> "raise", val |-> ExcV("RuntimeError", "returned")]
    /\ client["c1"].pc = "idle"

\* What do_call makes of the response payload resp.
OutcomeOf(resp) ==
    IF IsException(resp.obj) THEN [kind |-> "raise", val |-> resp.obj]
    ELSE [kind |-> "return", val |-> resp.obj]

\* The call of task t has ended with the outcome of its own request.
Paired(t) ==
    \E n \in 1..Len(obs["c1"].answers) :
        /\ obs["c1"].answers[n].k = conc.task[t].seq
        /\ conc.task[t].result = OutcomeOf(obs["c1"].answers[n].resp)

C31_StreamStaysInStep ==
    (conc.task["A"].pc = "done" /\ conc.task["A"].result.val.cls # "CancelledError")
        => Paired("A")

\* C32: a register_commands call that raised RpcDecoratorError (no marked
\* method, a marked method that is no async function, marking data that is no
\* ApiFunctionSpec, in the type or an ancestor type) has left the endpoint
\* table exactly as it was.
C32_FailedRegistrationAtomic ==
    [][(regs' # regs /\ regResult' # "ok") => commands' = commands]_vars

\* The (function name, api version) pairs looked at: every name of the table
\* and one that no type exposes, at every version of a request.
ResolveVersions == {IntV(v) : v \in 1..MaxVersion} \cup {StrV("x")}

\* C33: a register_commands call, whether it returns or raises, whatever
\* object it is given (a new object of a type registered before included),
\* only appends to the lists of the table: a pair that resolved to a handler
\* resolves afterwards to the same descriptor, the same function bound to the
\* same object, and a pair that failed otherwise than with RpcNoSuchApiError
\* or RpcInvalidVersionError fails afterwards in the same way.
C33_RegistrationAppendOnly ==
    [][regs' # regs =>
        /\ \A f \in DOMAIN commands :
              /\ f \in DOMAIN commands'
              /\ Len(commands'[f]) >= Len(commands[f])
              /\ SubSeq(commands'[f], 1, Len(commands[f])) = commands[f]
        /\ \A f \in DOMAIN commands' \cup {"some_func"}, v \in ResolveVersions :
              LET call == ApiCall(f, v, << >>, {})
                  b == _call_command(commands, call)
                  a == _call_command(commands', call)
              IN /\ b.sel > 0 =>
                       a.sel > 0 /\ commands'[f][a.sel] = commands[f][b.sel]
                 /\ (b.sel = 0 /\ b.raised.cls \notin {"RpcNoSuchApiError",
                                                       "RpcInvalidVersionError"})
                       => a = b
      ]_vars

\* C33 witness: two objects of the type MyCommands are registered, one after
\* the other; inc_one has a descriptor of each, and a request for it at
\* version 3 resolves to the descriptor of the first object.
C33_Witness ==
    /\ regs = 2 /\ regResult = "ok"
    /\ "inc_one" \in DOMAIN commands
    /\ Len(commands["inc_one"]) = 2
    /\ commands["inc_one"][1].obj = [cls |-> "MyCommands", id |-> 1]
    /\ commands["inc_one"][2].obj = [cls |-> "MyCommands", id |-> 2]
    /\ _call_command(commands, ApiCall("inc_one", IntV(3), << >>, {})).sel = 1

\* The host holds the endpoints of one object of the type instrumented on c,
\* and held them when it looked up the request of c.
SameType(c) ==
    /\ client[c].cls # "" /\ client[c].err = "ok"
    /\ regs = 1 /\ regResult = "ok"
    /\ commands = register_commands(<< >>, [cls |-> client[c].cls, id |-> 1]).commands

\* The method an object of the type on c has under the name last called.
OwnMethod(c) == Resolve(MRO(client[c].cls), 1, obs[c].method)

\* The call of a marked method whose range contains the client's version has
\* got as far as it gets towards a handler: the stub raised without sending,
\* or the host has looked the request up.
AgreeCase(c) ==
    /\ SameType(c)
    /\ obs[c].method # ""
    /\ MethodOf(OwnMethod(c)).marked
    /\ Contains(client[c].api_version, MethodOf(OwnMethod(c)).range)
    /\ \/ obs[c].stub = "throw"
       \/ obs[c].stub = "call" /\ obs[c].call # NoCall /\ obs[c].epoch = 1

\* Two version ranges have a version in common.
Overlaps(r1, r2) ==
    \E v \in 0..(MaxVersion + 1) : Contains(IntV(v), r1) /\ Contains(IntV(v), r2)

\* The ranges marked under the exposed name e in the type k and its ancestor
\* types are pairwise disjoint.
DisjointUnder(k, e) ==
    LET items == _iterate_functions(k).items
    IN \A i, j \in 1..Len(items) :
          (i # j /\ items[i].func_name = e /\ items[j].func_name = e)
              => ~Overlaps(items[i].range, items[j].range)

C35_MostDerivedMarkingWins ==
    \A c \in Conns :
        (client[c].cls # "" /\ client[c].err = "ok") =>
            \A name \in DOMAIN client[c].stubs :
                LET own == Resolve(MRO(client[c].cls), 1, name)
                    m == MethodOf(own)
                IN m.marked =>
                      client[c].stubs[name] =
                          WrapperFor([org |-> name, func_name |-> ExposedName(m),
                                      range |-> m.range, func |-> own],
                                     client[c].api_version)

====
